---------------------------- MODULE Spec2Model ----------------------------
(***************************************************************************)
(* chuid: parallel in-place rewrite of uid/gid over file-system trees.     *)
(*                                                                         *)
(* The model follows src/src/chuid.c (handle_subtree, process_tile, main), *)
(* src/src/queue.c (the deques), src/src/hash.c (the hardlink table) and   *)
(* src/src/config.c (uid_list / gid_list).                                 *)
(*                                                                         *)
(* Environment.  The file system is a fixed finite forest (Paths, Nodes).  *)
(* The seeded roots are the roots of distinct file systems, as the design  *)
(* text of chuid.c says, so no root lies below another root.  A directory  *)
(* stream position (telldir) is the number of entries already returned.    *)
(* chown/lchown on a node either always succeeds or always fails (EPERM,   *)
(* the nodes in eperm); lstat on a path and opendir on a directory either  *)
(* always succeed or always fail (the paths in enoent, the directories in  *)
(* eacces); readdir and closedir succeed.                                  *)
(***************************************************************************)
EXTENDS Integers, Sequences, FiniteSets, TLC

(***************************************************************************)
(* Bounds of the model                                                     *)
(***************************************************************************)
\* largest number of worker threads (-t) a run is started with
MaxThr == 2

(***************************************************************************)
(* The file system the runs work on                                        *)
(***************************************************************************)
NULL == [null |-> TRUE]

\* inodes: st_ino, st_dev, st_nlink and the owner before the run
Nodes == <<
  [ino |-> 10, dev |-> 1, nlink |-> 3, uid |-> 1, gid |-> 5],  \* 1  /a
  [ino |-> 11, dev |-> 1, nlink |-> 2, uid |-> 2, gid |-> 0],  \* 2  /a/d
  [ino |-> 20, dev |-> 1, nlink |-> 2, uid |-> 1, gid |-> 5],  \* 3  /a/f = /a/d/g
  [ino |-> 12, dev |-> 1, nlink |-> 2, uid |-> 1, gid |-> 5],  \* 4  /a/x (excluded)
  [ino |-> 13, dev |-> 1, nlink |-> 1, uid |-> 1, gid |-> 5],  \* 5  /a/x/y
  [ino |-> 14, dev |-> 1, nlink |-> 1, uid |-> 1, gid |-> 0],  \* 6  /a/d/s (symlink)
  [ino |-> 10, dev |-> 2, nlink |-> 3, uid |-> 0, gid |-> 5],  \* 7  /b
  [ino |-> 20, dev |-> 2, nlink |-> 2, uid |-> 0, gid |-> 5],  \* 8  /b/p (2nd link outside)
  [ino |-> 21, dev |-> 2, nlink |-> 2, uid |-> 1, gid |-> 5],  \* 9  /b/e
  [ino |-> 22, dev |-> 2, nlink |-> 1, uid |-> 1, gid |-> 5],  \* 10 /b/o (fifo)
  [ino |-> 23, dev |-> 2, nlink |-> 1, uid |-> 1, gid |-> 0],  \* 11 /b/r
  [ino |-> 15, dev |-> 1, nlink |-> 1, uid |-> 1, gid |-> 5]   \* 12 /a/d/x (excluded)
>>

\* directory entries (paths): basename, file type, inode, and for a
\* directory the entries readdir returns, in order
Paths == <<
  [name |-> "a", kind |-> "dir", node |-> 1,  list |-> <<2, 3, 4, 5>>],  \* 1  /a      (root)
  [name |-> ".", kind |-> "dir", node |-> 1,  list |-> <<>>],            \* 2  /a/.
  [name |-> "d", kind |-> "dir", node |-> 2,  list |-> <<6, 14, 7>>],    \* 3  /a/d
  [name |-> "f", kind |-> "reg", node |-> 3,  list |-> <<>>],            \* 4  /a/f
  [name |-> "x", kind |-> "dir", node |-> 4,  list |-> <<8>>],           \* 5  /a/x    (excluded)
  [name |-> "g", kind |-> "reg", node |-> 3,  list |-> <<>>],            \* 6  /a/d/g  (hardlink of /a/f)
  [name |-> "s", kind |-> "lnk", node |-> 6,  list |-> <<>>],            \* 7  /a/d/s  (-> /a/d)
  [name |-> "y", kind |-> "reg", node |-> 5,  list |-> <<>>],            \* 8  /a/x/y
  [name |-> "b", kind |-> "dir", node |-> 7,  list |-> <<10, 11, 12, 13>>], \* 9 /b   (root)
  [name |-> "p", kind |-> "reg", node |-> 8,  list |-> <<>>],            \* 10 /b/p
  [name |-> "e", kind |-> "dir", node |-> 9,  list |-> <<>>],            \* 11 /b/e
  [name |-> "o", kind |-> "oth", node |-> 10, list |-> <<>>],            \* 12 /b/o
  [name |-> "r", kind |-> "reg", node |-> 11, list |-> <<>>],            \* 13 /b/r
  [name |-> "x", kind |-> "reg", node |-> 12, list |-> <<>>]             \* 14 /a/d/x  (excluded)
>>

\* the symbolic links and the paths they point to: /a/d/s -> /a/d
LinkTarget == [p \in {7} |-> 3]

PathIds == DOMAIN Paths
NodeIds == DOMAIN Nodes

\* the roots file and the exclude file, as parsed
RootList    == <<1, 9>>
ExcludeList == <<"x">>

\* the map file: the (old, new) pairs of the u: lines and of the g: lines,
\* in file order, for each run configuration
MapInputs == {
  [u |-> <<[old |-> 1, new |-> 2], [old |-> 1, new |-> 3], [old |-> 2, new |-> 3]>>,
   g |-> <<[old |-> 5, new |-> 6]>>],
  [u |-> <<[old |-> 1, new |-> 2]>>, g |-> <<>>]
}


\* -b <busy threshold>: the values of busythreshold the runs are started
\* with, in tenths (0.9 is the default; sscanf accepts values above 1)
ThresholdTenths == {9, 15}

\* the sets of nodes on which chown(2)/lchown(2) fails with EPERM
ChownDenied == {{}, {9}}

\* the failures a run meets when its handling of failures is examined: none,
\* chown on the file /a/f = /a/d/g, chown on the directory /b/e, lstat on the
\* file /b/p, lstat on the directory /a/d, opendir on the directory /a/d
ErrorInputs ==
  {[eperm |-> {}, enoent |-> {}, eacces |-> {}],
   [eperm |-> {3}, enoent |-> {}, eacces |-> {}],
   [eperm |-> {9}, enoent |-> {}, eacces |-> {}],
   [eperm |-> {}, enoent |-> {10}, eacces |-> {}],
   [eperm |-> {}, enoent |-> {3}, eacces |-> {}],
   [eperm |-> {}, enoent |-> {}, eacces |-> {3}]}

\* the value get_max_openfiles falls back to, and the usual soft limit
SC_OPEN_MAX == 1024

\* the values of sysconf(_SC_OPEN_MAX) (ulimit -n) the option parsing is run
\* with; each leaves room for the descriptors of OPENFILES_OFFSET
OpenMax == {5, 8, 16, 24, 25, 64, 256, 261, SC_OPEN_MAX}

\* the numbers given with -t
ThreadArgs == {0, 1, 2, 3, 4, 11, 12, 19, 20, 21, 59, 60, 100, 251, 252, 256, 257, 300}

\* a map file with one u: and one g: line, and the file that maps back
RoundTripMap == [u |-> <<[old |-> 1, new |-> 2]>>, g |-> <<[old |-> 5, new |-> 6]>>]

inverse(lines) == [i \in DOMAIN lines |-> [old |-> lines[i].new, new |-> lines[i].old]]

\* largest number of signals that arrive during a run
MaxSignals == 2

\* the workers that take an item when the dispatch is exercised on its own
MaxWorkers == 4

\* the shared deques, their speeds (in units of 1/SpeedUnit) and the credit
\* the dispatch is exercised on
FastInputs == {<<>>, <<1>>, <<1, 3>>}

SlowInputs == {<<>>, <<9>>, <<9, 11>>}

SpeedInputs == 0..4

CreditInputs == 0..2

\* wall-clock seconds gettimeofday can show between t1 and t2
Deltas == {0, 1, 2}

\* speeds are held in units of 1/SpeedUnit directories per second, which
\* makes every directories_scanned / delta with delta in Deltas an integer
SpeedUnit == 1 + 1

(***************************************************************************)
(* queue.c: the double ended queues, as sequences of queue elements        *)
(***************************************************************************)
\* a queue element (WorkItem): the directory and the saved telldir position
QueueElement(path, pos) == [name |-> path, dirpos |-> pos]

\* an anchor whose speed is not initialised to 0
deq_init_speed_one == [q |-> <<>>, speed |-> 1]

deq_init == [q |-> <<>>, speed |-> 0]

element_counter(anchor) == Len(anchor.q)

deq_put(anchor, new) == [anchor EXCEPT !.q = Append(@, new)]

deq_push(anchor, new) == [anchor EXCEPT !.q = <<new>> \o @]

deq_first(anchor) == IF element_counter(anchor) > 0 THEN Head(anchor.q) ELSE NULL

deq_get(anchor) ==
  IF element_counter(anchor) > 0 THEN [anchor EXCEPT !.q = Tail(@)] ELSE anchor

deq_append(global, local) == [global EXCEPT !.q = @ \o local.q]

deq_prepend(global, local) == [global EXCEPT !.q = local.q \o @]

(***************************************************************************)
(* config.c: the id maps                                                   *)
(***************************************************************************)
\* uid_list / gid_list: append the pair unless its old id is already listed
uid_list(list, pair) ==
  IF \E i \in DOMAIN list : list[i].old = pair.old THEN list ELSE Append(list, pair)

RECURSIVE parseuidlist(_, _)
parseuidlist(lines, list) ==
  IF lines = <<>> THEN list
  ELSE parseuidlist(Tail(lines), uid_list(list, Head(lines)))

(***************************************************************************)
(* hash.c: the table of (ino, dev) pairs of hardlinked files               *)
(***************************************************************************)
\* a table in which no pair is ever found
h_mins_never_known(tab, ino, dev) == 0

\* h_mins: 1 if the pair is in the table, else 0 and the pair is inserted
h_mins_known(tab, ino, dev) == IF <<ino, dev>> \in tab THEN 1 ELSE 0

\* a table that drops the pair instead of inserting it
h_mins_table_forget(tab, ino, dev) == tab

h_mins_table(tab, ino, dev) == tab \cup {<<ino, dev>>}

(***************************************************************************)
(* hash.c as written: struct htab with the entry array het_tab and the     *)
(* bucket array hash.  A pointer to an entry is <<>> (NULL) or <<b, i>>,   *)
(* entry i of the block b that malloc/realloc returned for het_tab.  The   *)
(* field wild records that a pointer which is not an entry of the current  *)
(* block, or an entry nothing has written, was used.                       *)
(***************************************************************************)
\* the calls of h_mins a run of the table receives
MaxCalls == 5

\* st_ino, st_dev and the arguments of h_init the table is exercised with
Inos == {1, 3, 5}

Devs == {1, 2}

InitMods == {1, 2}

InitTabSizes == {1, 2}

\* struct h_ent as malloc/realloc leaves it
h_ent_unset == [ino |-> 0, dev |-> 0, c_link |-> <<>>, set |-> FALSE]

h_ent(ino, dev, c_link) == [ino |-> ino, dev |-> dev, c_link |-> c_link, set |-> TRUE]

\* h_reset: first_free = 0 and every bucket NULL
h_reset(ht) == [ht EXCEPT !.first_free = 0, !.hash = [i \in 0..(ht.mod - 1) |-> <<>>]]

h_init(mod, het_tab_size) ==
  h_reset([mod |-> mod, het_tab_size |-> het_tab_size, first_free |-> 0, block |-> 1,
           het_tab |-> [i \in 0..(het_tab_size - 1) |-> h_ent_unset],
           hash |-> [i \in 0..(mod - 1) |-> <<>>], wild |-> FALSE])

\* ep points to a written entry of the current het_tab
valid(ht, ep) ==
  /\ ep # <<>>
  /\ ep[1] = ht.block
  /\ ep[2] \in 0..(ht.het_tab_size - 1)
  /\ ht.het_tab[ep[2]].set

\* a comparison that ignores the device
same_file_any_dev(e, ino, dev) == e.ino = ino

\* ep->ino == ino && ep->dev == dev
same_file(e, ino, dev) == e.ino = ino /\ e.dev = dev

\* the do-while of h_ins over the chain of a bucket, entered with ep != NULL:
\* 1 when the pair is met, 0 at the end of the chain, 2 when ep is wild
RECURSIVE chain(_, _, _, _)
chain(ht, ep, ino, dev) ==
  IF ~valid(ht, ep) THEN 2
  ELSE IF same_file(ht.het_tab[ep[2]], ino, dev) THEN 1
  ELSE IF ht.het_tab[ep[2]].c_link = <<>> THEN 0
  ELSE chain(ht, ht.het_tab[ep[2]].c_link, ino, dev)

\* h_ins: [ret, ht], the return value and the table after the call
h_ins(ht, ino, dev) ==
  LET hp == ino % ht.mod
      ep2 == ht.hash[hp]
      met == IF ep2 # <<>> THEN chain(ht, ep2, ino, dev) ELSE 0
  IN  IF met = 1 THEN [ret |-> 1, ht |-> ht]
      ELSE IF met = 2 \/ ht.first_free >= ht.het_tab_size
      THEN [ret |-> 0, ht |-> [ht EXCEPT !.wild = TRUE]]
      ELSE [ret |-> 0,
            ht |-> [ht EXCEPT !.hash[hp] = <<ht.block, ht.first_free>>,
                              !.het_tab[ht.first_free] = h_ent(ino, dev, ep2),
                              !.first_free = @ + 1]]

\* for (ep = htab_r->het_tab; i > 0; i--) { h_ins(htab_r, ep->ino, ep->dev); ep++; }
\* the entries j .. j + i - 1 of het_tab are inserted again
RECURSIVE rehash(_, _, _)
rehash(ht, j, i) ==
  IF i = 0 THEN ht
  ELSE IF ~ht.het_tab[j].set THEN [ht EXCEPT !.wild = TRUE]
  ELSE rehash(h_ins(ht, ht.het_tab[j].ino, ht.het_tab[j].dev).ht, j + 1, i - 1)

\* the growth in h_mins: mod and het_tab_size are doubled, realloc keeps the
\* entries of het_tab and returns the same block or another one (moved), the
\* buckets are reset and the first_free entries are inserted again
grow(ht, moved) ==
  LET mod == 2 * ht.mod
      het_tab_size == 2 * ht.het_tab_size
      i == ht.first_free
      htab_r == [ht EXCEPT !.mod = mod, !.het_tab_size = het_tab_size,
                           !.block = IF moved THEN @ + 1 ELSE @,
                           !.het_tab = [k \in 0..(het_tab_size - 1) |->
                                          IF k < ht.het_tab_size THEN ht.het_tab[k]
                                          ELSE h_ent_unset]]
  IN  rehash(h_reset(htab_r), 0, i)

\* h_mins: [ret, ht]
h_mins(ht, ino, dev, moved) ==
  h_ins(IF ht.first_free >= ht.het_tab_size THEN grow(ht, moved) ELSE ht, ino, dev)

(***************************************************************************)
(* queue.c at its pointers: the anchors (element_counter, speed, first,    *)
(* last) and the next pointers of the queue elements.  A pointer is <<>>   *)
(* (NULL) or <<e>>; a function returns the heap and the anchors as the     *)
(* call leaves them, and fault when it has dereferenced NULL               *)
(***************************************************************************)
MaxElems == 4

Elements == 1..MaxElems

\* every queue element is made with next = NULL (chuid.c:1134, 1788)
NoLinks == [e \in Elements |-> <<>>]

q_init == [element_counter |-> 0, speed |-> 0, first |-> <<>>, last |-> <<>>]

\* deq_put(anchor, new)
q_put(h, anchor, new) ==
  IF new = <<>> THEN [heap |-> h, anchor |-> anchor, fault |-> FALSE]
  ELSE IF anchor.element_counter > 0 /\ anchor.last = <<>>
  THEN [heap |-> h, anchor |-> anchor, fault |-> TRUE]
  ELSE [heap   |-> IF anchor.element_counter > 0
                   THEN [h EXCEPT ![anchor.last[1]] = new] ELSE h,
        anchor |-> [anchor EXCEPT !.first = IF anchor.element_counter > 0 THEN @ ELSE new,
                                  !.last = new,
                                  !.element_counter = @ + 1],
        fault  |-> FALSE]

\* deq_push(anchor, new)
q_push(h, anchor, new) ==
  IF new = <<>> THEN [heap |-> h, anchor |-> anchor, fault |-> FALSE]
  ELSE [heap   |-> IF anchor.element_counter > 0
                   THEN [h EXCEPT ![new[1]] = anchor.first] ELSE h,
        anchor |-> [anchor EXCEPT !.last = IF anchor.element_counter > 0 THEN @ ELSE new,
                                  !.first = new,
                                  !.element_counter = @ + 1],
        fault  |-> FALSE]

\* the local anchor after deq_append and deq_prepend
q_emptied(local) ==
  [local EXCEPT !.element_counter = 0, !.speed = 0, !.first = <<>>, !.last = <<>>]

\* deq_append(global, local)
q_append(h, global, local) ==
  IF local.element_counter > 0
  THEN IF global.element_counter > 0 /\ global.last = <<>>
       THEN [heap |-> h, global |-> global, local |-> local, fault |-> TRUE]
       ELSE [heap   |-> IF global.element_counter > 0
                        THEN [h EXCEPT ![global.last[1]] = local.first] ELSE h,
             global |-> [global EXCEPT
                           !.first = IF global.element_counter > 0 THEN @ ELSE local.first,
                           !.last = local.last,
                           !.element_counter = @ + local.element_counter],
             local  |-> q_emptied(local),
             fault  |-> FALSE]
  ELSE [heap |-> h, global |-> global, local |-> q_emptied(local), fault |-> FALSE]

\* a deq_prepend that links the local deque behind the global one
q_prepend_behind(h, global, local) == q_append(h, global, local)

\* deq_prepend(global, local)
q_prepend(h, global, local) ==
  IF local.element_counter > 0
  THEN IF global.element_counter > 0 /\ local.last = <<>>
       THEN [heap |-> h, global |-> global, local |-> local, fault |-> TRUE]
       ELSE [heap   |-> IF global.element_counter > 0
                        THEN [h EXCEPT ![local.last[1]] = global.first] ELSE h,
             global |-> [global EXCEPT
                           !.last = IF global.element_counter > 0 THEN @ ELSE local.last,
                           !.first = local.first,
                           !.element_counter = @ + local.element_counter],
             local  |-> q_emptied(local),
             fault  |-> FALSE]
  ELSE [heap |-> h, global |-> global, local |-> q_emptied(local), fault |-> FALSE]

\* a deq_get that leaves last as it is
q_get_last_kept(h, anchor) ==
  IF anchor.element_counter > 0 /\ anchor.first # <<>>
  THEN [heap   |-> [h EXCEPT ![anchor.first[1]] = <<>>],
        anchor |-> [anchor EXCEPT !.first = h[anchor.first[1]],
                                  !.element_counter = @ - 1],
        ret    |-> anchor.first,
        fault  |-> FALSE]
  ELSE [heap |-> h, anchor |-> anchor, ret |-> <<>>, fault |-> FALSE]

\* deq_get(anchor): ret is the element taken, or NULL
q_get(h, anchor) ==
  IF anchor.element_counter > 0
  THEN IF anchor.first = <<>>
       THEN [heap |-> h, anchor |-> anchor, ret |-> <<>>, fault |-> TRUE]
       ELSE [heap   |-> [h EXCEPT ![anchor.first[1]] = <<>>],
             anchor |-> [anchor EXCEPT
                           !.first = h[anchor.first[1]],
                           !.element_counter = @ - 1,
                           !.last = IF anchor.element_counter = 1 THEN <<>> ELSE @],
             ret    |-> anchor.first,
             fault  |-> FALSE]
  ELSE [heap |-> h, anchor |-> anchor, ret |-> <<>>, fault |-> FALSE]

\* the elements met from the pointer ptr along next, at most fuel of them
RECURSIVE walk(_, _, _)
walk(h, ptr, fuel) ==
  IF ptr = <<>> \/ fuel = 0 THEN <<>>
  ELSE <<ptr[1]>> \o walk(h, h[ptr[1]], fuel - 1)

(***************************************************************************)
(* State                                                                   *)
(***************************************************************************)
VARIABLES
  numthr,        \* number of worker threads
  stack,         \* 1: LIFO (default), 0: FIFO (-q)
  dual_queue,    \* 1: fast and slow deque (default), 0: one deque (-o)
  dryrun,        \* 1: -n
  busythreshold, \* -b, in tenths
  begin_uidpair, \* the uid map, a sequence of [old, new]
  begin_gidpair, \* the gid map
  eperm,         \* environment: the nodes on which chown/lchown fails
  enoent,        \* environment: the paths on which lstat fails
  eacces,        \* environment: the directories on which opendir fails
  fast_anchor,   \* the shared fast deque: [q, speed]
  slow_anchor,   \* the shared slow deque
  busy_count,
  notfinished,
  fast_nodes_befor_next_slow_node,
  thr_queue,     \* holder of the mutex thr_queue, 0 when free
  htab,          \* the hardlink table
  owner,         \* file system: node -> [uid, gid]
  thr,           \* per worker: position in handle_subtree / process_tile and locals
  freed,         \* names of queue elements free()d while still linked or in use
  crashed,       \* the process has run into undefined behaviour and is gone
  visits,        \* history: path -> number of times lstat-ed and classified
  rewritten,     \* history: path -> number of times the id rewrite was applied
  calls,         \* history: path -> the chown/lchown calls made on it, in order
  out,           \* history: path -> number of dry-run lines printed for it
  flips,         \* history: number of assignments notfinished = 0
  max_openfiles, \* sysconf(_SC_OPEN_MAX), as read at the start of main
  optarg,        \* the -t options of the command line: <<n>>, or <<>> without -t
  main,          \* the main thread: "getopt", "run" or "exit"
  run,           \* 1 in the first run of the program on the tree, 2 in the second
  plan,          \* the map file of a second run: "same" or "inverse"
  first,         \* history: the owners and the visited paths at the end of run 1
  handlers,      \* the invocations of the signal handler: [ctx, pc], in order of entry
  teardown,      \* history: the joins and frees of shared objects, [by, step]
  scanned,       \* history: per worker the directory it had open when the
                 \* handler asked for the shutdown (0: none)
  h_calls,       \* history: the calls of h_mins made on a table, [ino, dev, ret]
  locks,         \* the holders of thr_handler, thr_nlink and thr_print: <<>> or <<c>>
  heap,          \* queue.c seen at its pointers: queue element -> its next pointer, <<>> or <<e>>
  anchors,       \* queue.c seen at its pointers: the anchors global and local
  deq_call,      \* history: the last call of a function of queue.c and the deques before it
  timer,         \* process_tile seen at its clock: now, t1, directories_scanned, the rate computed last
  reporter,      \* statistic: stat_counters, its totals and the line printed last
  streak         \* history of the dual-queue dispatches: c, the credit computed at
                 \* the last dispatch from the slow deque, and n, the dispatches
                 \* from the fast deque made since then while the slow deque held
                 \* an element

vars == <<numthr, stack, dual_queue, dryrun, busythreshold, begin_uidpair,
          begin_gidpair, eperm, enoent, eacces, reporter, timer, deq_call, anchors, heap, locks, max_openfiles, optarg, main, run, plan, first,
          handlers, teardown, scanned,
          h_calls, streak, fast_anchor, slow_anchor, busy_count, notfinished,
          fast_nodes_befor_next_slow_node, thr_queue, htab, owner, thr,
          freed, crashed, visits, rewritten, calls, out, flips>>

\* what no step of a worker changes: the options, the environment, the
\* main thread, the signal handlers and the record of an earlier run
settings == <<numthr, stack, dual_queue, dryrun, busythreshold, begin_uidpair,
              begin_gidpair, eperm, enoent, eacces, reporter, timer, deq_call, anchors, heap, locks, max_openfiles, optarg, main, run,
              plan, first, handlers, teardown, scanned, h_calls>>

\* what no step of a worker other than a dispatch changes
config == <<settings, streak>>

\* no dispatch yet
NoStreak == [n |-> 0, c |-> 0]

\* static pthread_mutex_t thr_print, thr_nlink, thr_handler =
\* PTHREAD_MUTEX_INITIALIZER: no thread holds them
NoLocks == [m \in {"thr_handler", "thr_nlink", "thr_print"} |-> <<>>]

Threads == 1..numthr

\* the locals of handle_subtree and process_tile of a thread that holds no item
IdleLocals(pc) ==
  [pc |-> pc, p_anchor |-> deq_init, w_element |-> NULL, dp |-> -1,
   too_many_idle_threads |-> 0, backtodeq |-> 0, directories_scanned |-> 0,
   first_deq_element |-> NULL, j |-> 0, oname |-> "null"]

\* main: options, parsed input files, seeded fast deque, started threads
RECURSIVE SeedRoots(_, _)
SeedRoots(roots, anchor) ==
  IF roots = <<>> THEN anchor
  ELSE SeedRoots(Tail(roots), deq_put(anchor, QueueElement(Head(roots), 0)))

InitEngine(n, maps) ==
  /\ numthr = n
  /\ optarg = <<n>>
  /\ max_openfiles = SC_OPEN_MAX
  /\ main = "run"
  /\ handlers = <<>>
  /\ teardown = <<>>
  /\ scanned = <<>>
  /\ h_calls = <<>>
  /\ reporter = <<>>
  /\ timer = <<>>
  /\ deq_call = <<>>
  /\ anchors = <<>>
  /\ heap = <<>>
  /\ locks = NoLocks
  /\ streak = NoStreak
  /\ stack \in {0, 1}
  /\ dual_queue \in {0, 1}
  /\ dryrun \in {0, 1}
  /\ busythreshold \in ThresholdTenths
  /\ begin_uidpair = parseuidlist(maps.u, <<>>)
  /\ begin_gidpair = parseuidlist(maps.g, <<>>)
  /\ fast_anchor = SeedRoots(RootList, deq_init)
  /\ slow_anchor = deq_init
  /\ busy_count = 0
  /\ notfinished = 1
  /\ fast_nodes_befor_next_slow_node = 0
  /\ thr_queue = 0
  /\ htab = {}
  /\ owner = [n0 \in NodeIds |-> [uid |-> Nodes[n0].uid, gid |-> Nodes[n0].gid]]
  /\ thr = [w \in 1..n |-> IdleLocals("loop")]
  /\ freed = {}
  /\ crashed = FALSE
  /\ visits = [p \in PathIds |-> 0]
  /\ rewritten = [p \in PathIds |-> 0]
  /\ calls = [p \in PathIds |-> <<>>]
  /\ out = [p \in PathIds |-> 0]
  /\ flips = 0

\* a run in which lstat and opendir succeed
InitRun(n, maps) ==
  /\ InitEngine(n, maps)
  /\ eperm \in ChownDenied
  /\ enoent = {}
  /\ eacces = {}

\* the program is run once
SingleRun == run = 1 /\ plan = "same" /\ first = <<>>

Init == \E n \in 1..MaxThr : \E maps \in MapInputs : InitRun(n, maps) /\ SingleRun

(***************************************************************************)
(* chuid.c, process_tile: the id rewrite of one directory entry            *)
(***************************************************************************)
\* chown(2) / lchown(2) on a node that permits it: -1 leaves the id as it is
chown(own, uid, gid) ==
  [uid |-> IF uid = -1 THEN own.uid ELSE uid,
   gid |-> IF gid = -1 THEN own.gid ELSE gid]

\* a loop that does not compare the id found with the old id of the pair
chown_loop_unmatched(list, id, ok) == IF list = <<>> THEN <<>> ELSE <<Head(list).new>>

\* while (uptr != NULL) of the real run: the new ids chown is called with.
\* A successful call ends the loop (break), a failed call does not.
RECURSIVE chown_loop(_, _, _)
chown_loop(list, id, ok) ==
  IF list = <<>> THEN <<>>
  ELSE IF Head(list).old = id
       THEN IF ok THEN <<Head(list).new>>
            ELSE <<Head(list).new>> \o chown_loop(Tail(list), id, ok)
       ELSE chown_loop(Tail(list), id, ok)

\* while (uptr != NULL) of the dry run: the new ids a line is printed for
RECURSIVE dryrun_loop(_, _)
dryrun_loop(list, id) ==
  IF list = <<>> THEN <<>>
  ELSE IF Head(list).old = id THEN <<Head(list).new>>
       ELSE dryrun_loop(Tail(list), id)

\* a rewrite that calls chown on symbolic links too
chown_fn_follow(kind) == "chown"

\* the S_ISLNK branch calls lchown, the S_ISREG and S_ISDIR branches chown
chown_fn(kind) == IF kind = "lnk" THEN "lchown" ELSE "chown"

\* a call made on the name of the directory that is read instead of the path
\* of the child: it acts on the inode of that directory
resolve_dirname(p, fn) ==
  Paths[CHOOSE dir \in DOMAIN Paths : \E i \in DOMAIN Paths[dir].list : Paths[dir].list[i] = p].node

\* the inode a call on path p acts on: chown(2) follows a symbolic link,
\* lchown(2) does not
resolve(p, fn) ==
  IF Paths[p].kind = "lnk" /\ fn = "chown" THEN Paths[LinkTarget[p]].node
  ELSE Paths[p].node

\* the calls of the uid loop followed by the calls of the gid loop, for an
\* entry of file type kind whose lstat showed st_uid, st_gid
rewrite_calls(kind, st_uid, st_gid, ok) ==
  LET fn == chown_fn(kind)
      us == chown_loop(begin_uidpair, st_uid, ok)
      gs == chown_loop(begin_gidpair, st_gid, ok)
  IN  [i \in 1..Len(us) |-> [fn |-> fn, uid |-> us[i], gid |-> -1, ok |-> ok]]
      \o [i \in 1..Len(gs) |-> [fn |-> fn, uid |-> -1, gid |-> gs[i], ok |-> ok]]

\* a dry run that reports the uid change only
dryrun_lines_uid_only(st_uid, st_gid) == Len(dryrun_loop(begin_uidpair, st_uid))

\* the dry-run lines of an entry: one per matching uid pair, one per matching gid pair
dryrun_lines(st_uid, st_gid) ==
  Len(dryrun_loop(begin_uidpair, st_uid)) + Len(dryrun_loop(begin_gidpair, st_gid))

\* a rewrite that calls chown without looking at dryrun
entry_calls_always(kind, st_uid, st_gid, ok) == rewrite_calls(kind, st_uid, st_gid, ok)

\* if (dryrun) { print } else { chown }: the calls made for one entry
entry_calls(kind, st_uid, st_gid, ok) ==
  IF dryrun = 0 THEN rewrite_calls(kind, st_uid, st_gid, ok) ELSE <<>>

\* if (dryrun) { print } else { chown }: the lines printed for one entry
entry_lines(st_uid, st_gid) ==
  IF dryrun = 1 THEN dryrun_lines(st_uid, st_gid) ELSE 0

\* the owner of a node after the calls
RECURSIVE apply_calls(_, _)
apply_calls(own, cs) ==
  IF cs = <<>> THEN own
  ELSE apply_calls(IF Head(cs).ok THEN chown(own, Head(cs).uid, Head(cs).gid) ELSE own,
                   Tail(cs))

\* oname/nname after the entry: they dangle once uidname/gidname results
\* have been freed (after a printed dry-run line or a successful call)
oname_after(oname, cs, lines) ==
  IF lines > 0 \/ (\E i \in DOMAIN cs : cs[i].ok) THEN "freed" ELSE oname

\* the directory branch frees oname and nname after a failed uid chown
\* without having set them: a double free when they dangle
double_free(kind, oname, cs) ==
  /\ kind = "dir"
  /\ oname = "freed"
  /\ \E i \in DOMAIN cs : cs[i].uid # -1 /\ ~cs[i].ok

\* the calls made before the double free
calls_before_double_free(cs) == SubSeq(cs, 1, 1)

\* a readdir loop without the walk over the exclude list
include_every_name(name) == TRUE

\* strcmp(dirp->d_name, efptr->dirpath) over the exclude list
include(name) == ~\E i \in DOMAIN ExcludeList : ExcludeList[i] = name

\* (double) busy_count / (double) numthr < busythreshold
too_few_busy == busy_count * 10 < busythreshold * numthr

(***************************************************************************)
(* chuid.c, handle_subtree: taking an item from the shared deques          *)
(***************************************************************************)
\* the process has neither died nor called exit
alive == ~crashed /\ main # "exited"

\* thread c (0: the main thread) is inside the signal handler, which does not return
suspended(c) == \E h \in DOMAIN handlers : handlers[h].ctx = c

\* thread w is at the given place of its code and runs
at(w, pc) == w \in Threads /\ alive /\ ~suspended(w) /\ thr[w].pc = pc

Local(w, field, value) == [thr EXCEPT ![w][field] = value]

both_empty == element_counter(fast_anchor) = 0 /\ element_counter(slow_anchor) = 0

\* (long) ceil(fast_anchor->speed / slow_anchor->speed); with a zero divisor
\* the quotient is infinite or NaN and the conversion to long is undefined
\* TLC's integers have 32 bits: the largest of them stands for LONG_MAX, its
\* negation for LONG_MIN, and it also stands for the largest size_t
LONG_MAX == 2147483647

LONG_MIN == -LONG_MAX

UndefinedLong == {LONG_MIN, 0, LONG_MAX}

\* busy_count++ and busy_count-- on a size_t
size_inc(x) == IF x = LONG_MAX THEN 0 ELSE x + 1

\* a release that leaves the count as it is
size_dec_skipped(x) == x

size_dec(x) == IF x = 0 THEN LONG_MAX ELSE x - 1

\* a conversion that is undefined for every quotient
ceil_ratio_undefined(fast_speed, slow_speed) == UndefinedLong

ceil_ratio(fast_speed, slow_speed) ==
  IF slow_speed > 0 THEN {(fast_speed + slow_speed - 1) \div slow_speed}
  ELSE UndefinedLong

\* a dispatch from the fast deque that leaves the credit as it is
credit_kept(credit) == credit

\* fast_nodes_befor_next_slow_node-- after deq_get(fast_anchor)
credit_spent(credit) == credit - 1

\* a dispatch that serves the fast deque whenever it holds an element
dispatch_from_fast_first ==
  IF element_counter(fast_anchor) > 0 THEN "fast"
  ELSE IF element_counter(slow_anchor) > 0 THEN "slow" ELSE "none"

\* which deque the item is taken from: "fast", "slow" or "none"
dispatch_from ==
  IF dual_queue = 1
  THEN IF fast_nodes_befor_next_slow_node > 0
       THEN IF element_counter(fast_anchor) > 0 THEN "fast"
            ELSE IF element_counter(slow_anchor) > 0 THEN "slow" ELSE "none"
       ELSE IF element_counter(slow_anchor) > 0 THEN "slow"
            ELSE IF element_counter(fast_anchor) > 0 THEN "fast" ELSE "none"
  ELSE IF element_counter(fast_anchor) > 0 THEN "fast" ELSE "none"

\* the speeds after the item is taken (dual-queue mode only)
decay(fast, slow) ==
  IF dual_queue = 0 THEN <<fast, slow>>
  ELSE IF element_counter(fast) = 0 /\ element_counter(slow) = 0
       THEN <<[fast EXCEPT !.speed = 0], [slow EXCEPT !.speed = 0]>>
  ELSE IF element_counter(fast) = 0 THEN <<[fast EXCEPT !.speed = slow.speed], slow>>
  ELSE IF element_counter(slow) = 0 THEN <<fast, [slow EXCEPT !.speed = fast.speed]>>
  ELSE <<fast, slow>>

\* while (notfinished) at the top of handle_subtree
LoopTest(w) ==
  /\ at(w, "loop")
  /\ thr' = Local(w, "pc", IF notfinished = 1 THEN "lock" ELSE "exited")
  /\ UNCHANGED <<config, fast_anchor, slow_anchor, busy_count, notfinished,
                 fast_nodes_befor_next_slow_node, thr_queue, htab, owner, freed,
                 crashed, visits, rewritten, calls, out, flips>>

\* pthread_mutex_lock(&thr_queue) (also on return from pthread_cond_wait), the
\* wait predicate, and, unless the thread has to wait, the rest of the
\* critical section up to pthread_mutex_unlock
Dispatch(w) ==
  /\ at(w, "lock")
  /\ thr_queue = 0
  /\ IF both_empty /\ notfinished = 1
     THEN /\ thr_queue' = w
          /\ thr' = Local(w, "pc", "cwait")
          /\ UNCHANGED <<fast_anchor, slow_anchor, busy_count,
                         fast_nodes_befor_next_slow_node, streak>>
     ELSE IF notfinished = 1 /\ dispatch_from # "none"
     THEN LET from  == dispatch_from
              qe    == IF from = "fast" THEN deq_first(fast_anchor)
                       ELSE deq_first(slow_anchor)
              fast1 == IF from = "fast" THEN deq_get(fast_anchor) ELSE fast_anchor
              slow1 == IF from = "slow" THEN deq_get(slow_anchor) ELSE slow_anchor
              after == decay(fast1, slow1)
          IN  /\ fast_anchor' = after[1]
              /\ slow_anchor' = after[2]
              /\ IF dual_queue = 1 /\ from = "slow"
                 THEN fast_nodes_befor_next_slow_node'
                        \in ceil_ratio(fast1.speed, slow1.speed)
                 ELSE IF dual_queue = 1 /\ fast_nodes_befor_next_slow_node > 0
                 THEN fast_nodes_befor_next_slow_node'
                        = credit_spent(fast_nodes_befor_next_slow_node)
                 ELSE UNCHANGED fast_nodes_befor_next_slow_node
              /\ streak' = IF dual_queue = 0 THEN streak
                            ELSE IF from = "slow"
                            THEN [n |-> 0, c |-> fast_nodes_befor_next_slow_node']
                            ELSE IF element_counter(slow_anchor) > 0
                            THEN [streak EXCEPT !.n = @ + 1]
                            ELSE streak
              /\ busy_count' = size_inc(busy_count)
              /\ thr' = [thr EXCEPT ![w] =
                           [IdleLocals("top") EXCEPT !.p_anchor = deq_push(deq_init, qe)]]
              /\ UNCHANGED thr_queue
     ELSE /\ thr' = Local(w, "pc", "loop")
          /\ UNCHANGED <<fast_anchor, slow_anchor, busy_count,
                         fast_nodes_befor_next_slow_node, thr_queue, streak>>
  /\ UNCHANGED <<settings, notfinished, htab, owner, freed, crashed, visits,
                 rewritten, calls, out, flips>>

\* pthread_cond_wait: the mutex is released and the thread blocks
CondWait(w) ==
  /\ at(w, "cwait")
  /\ thr_queue' = 0
  /\ thr' = Local(w, "pc", "waiting")
  /\ UNCHANGED <<config, fast_anchor, slow_anchor, busy_count, notfinished,
                 fast_nodes_befor_next_slow_node, htab, owner, freed, crashed,
                 visits, rewritten, calls, out, flips>>

\* pthread_cond_wait may return without a signal (POSIX spurious wakeup)
SpuriousWakeup(w) ==
  /\ at(w, "waiting")
  /\ thr' = Local(w, "pc", "lock")
  /\ UNCHANGED <<config, fast_anchor, slow_anchor, busy_count, notfinished,
                 fast_nodes_befor_next_slow_node, thr_queue, htab, owner, freed,
                 crashed, visits, rewritten, calls, out, flips>>

\* an end test that does not look at the shared deques
end_of_scan_deques_ignored(count) == count = 0

\* an end test that does not look at busy_count
end_of_scan_busy_ignored(count) == both_empty

\* if (busy_count == 0 && both deques empty), with busy_count just decremented
end_of_scan(count) == count = 0 /\ both_empty

\* the threads blocked in pthread_cond_wait
Waiters == {v \in Threads : thr[v].pc = "waiting"}

\* busy_count--, the test for the end of the scan phase, the broadcast
Release(w) ==
  /\ at(w, "release")
  /\ thr_queue = 0
  /\ busy_count' = size_dec(busy_count)
  /\ IF end_of_scan(busy_count')
     THEN /\ notfinished' = 0
          /\ flips' = flips + 1
          /\ thr' = [v \in Threads |->
                       IF v = w THEN [thr[v] EXCEPT !.pc = "loop"]
                       ELSE IF v \in Waiters THEN [thr[v] EXCEPT !.pc = "lock"]
                       ELSE thr[v]]
     ELSE /\ thr' = Local(w, "pc", "loop")
          /\ UNCHANGED <<notfinished, flips>>
  /\ UNCHANGED <<config, fast_anchor, slow_anchor, fast_nodes_befor_next_slow_node,
                 thr_queue, htab, owner, freed, crashed, visits, rewritten, calls, out>>

(***************************************************************************)
(* chuid.c, process_tile: the traversal of the private deque               *)
(***************************************************************************)
\* readdir: the stream position after the call
readdir_pos(list, pos) == IF pos < Len(list) THEN pos + 1 ELSE pos

\* a seekdir that does not move the stream: the directory is read from its
\* first entry again
opendir_rewound(qe) == 0

\* seekdir is called only for a non-zero saved position
opendir_pos(qe) == IF qe.dirpos # 0 THEN qe.dirpos ELSE 0

\* what opendir on the name of a queue element can do: the name of an element
\* that has been free()d is read from freed memory
opendir_outcomes(qe) ==
  IF qe.name \in freed THEN {"ok", "fail", "crash"}
  ELSE IF qe.name \in eacces THEN {"fail"}
  ELSE {"ok"}

\* while (p_anchor->element_counter > 0): take the next element and open it
TileTop(w) ==
  LET t  == thr[w]
      qe == deq_first(t.p_anchor)
  IN  /\ at(w, "top")
      /\ element_counter(t.p_anchor) > 0
      /\ \E o \in opendir_outcomes(qe) :
           /\ crashed' = (o = "crash")
           /\ thr' = [thr EXCEPT ![w] =
                [t EXCEPT !.too_many_idle_threads = 0,
                          !.backtodeq = 0,
                          !.directories_scanned = IF dual_queue = 1 THEN @ + 1 ELSE @,
                          !.w_element = qe,
                          !.p_anchor = deq_get(t.p_anchor),
                          !.dp = IF o = "ok" THEN opendir_pos(qe) ELSE -1,
                          !.pc = IF o = "ok" THEN "scan" ELSE "top"]]
      /\ UNCHANGED <<config, fast_anchor, slow_anchor, busy_count, notfinished,
                     fast_nodes_befor_next_slow_node, thr_queue, htab, owner, freed,
                     visits, rewritten, calls, out, flips>>

\* the private deque is empty: free(p_anchor), free(w_element), return.
\* w_element is the element taken last; after a single-queue handback that
\* element sits in the fast deque (or with the thread that took it from there)
TileExit(w) ==
  LET t == thr[w]
  IN  /\ at(w, "top")
      /\ element_counter(t.p_anchor) = 0
      /\ freed' = IF t.backtodeq = 1 THEN freed \cup {t.w_element.name} ELSE freed
      /\ thr' = [thr EXCEPT ![w] = IdleLocals("release")]
      /\ UNCHANGED <<config, fast_anchor, slow_anchor, busy_count, notfinished,
                     fast_nodes_befor_next_slow_node, thr_queue, htab, owner,
                     crashed, visits, rewritten, calls, out, flips>>

\* lstat(pathofchild, &t_statbuf): 0, or -1 on the paths in enoent
lstat(path) == IF path \in enoent THEN -1 ELSE 0

\* one pass of the readdir loop: the entry is skipped (".", "..", excluded)
\* or lstat-ed, classified and rewritten, and then the idle check is made
ReadDir(w) ==
  LET t     == thr[w]
      dir   == t.w_element.name
      list  == Paths[dir].list
      pos1  == readdir_pos(list, t.dp)
      e     == list[pos1]
      ent   == Paths[e]
      nd    == Nodes[ent.node]
      st    == owner[ent.node]
      taken == ent.name \notin {".", ".."} /\ include(ent.name)
      kind  == IF lstat(e) = 0 THEN ent.kind ELSE "none"
      hashed  == kind = "reg" /\ nd.nlink > 1
      known_nlink_file == IF hashed THEN h_mins_known(htab, nd.ino, nd.dev) ELSE 0
      rewrite == \/ kind = "reg" /\ (nd.nlink = 1 \/ known_nlink_file = 0)
                 \/ kind \in {"lnk", "dir"}
      cs    == IF rewrite
               THEN entry_calls(kind, st.uid, st.gid, ent.node \notin eperm) ELSE <<>>
      lines == IF rewrite THEN entry_lines(st.uid, st.gid) ELSE 0
      df    == double_free(kind, t.oname, cs)
      p1    == IF kind = "dir"
               THEN IF stack = 1 THEN deq_push(t.p_anchor, QueueElement(e, 0))
                    ELSE deq_put(t.p_anchor, QueueElement(e, 0))
               ELSE t.p_anchor
      idle  == too_few_busy
      w1    == [t.w_element EXCEPT !.dirpos = pos1]
      more  == pos1 < Len(list)
  IN  /\ at(w, "scan")
      /\ t.too_many_idle_threads = 0
      /\ t.dp < Len(list)
      /\ IF ~taken
         THEN /\ thr' = Local(w, "dp", pos1)
              /\ UNCHANGED <<htab, owner, crashed, visits, rewritten, calls, out>>
         ELSE \E o \in IF df \/ dir \in freed THEN {"ok", "crash"} ELSE {"ok"} :
              IF o = "crash"
              THEN /\ crashed' = TRUE
                   /\ IF df
                      THEN /\ visits' = [visits EXCEPT ![e] = @ + 1]
                           /\ rewritten' = [rewritten EXCEPT ![e] = @ + 1]
                           /\ calls' = [calls EXCEPT ![e] = @ \o calls_before_double_free(cs)]
                      ELSE UNCHANGED <<visits, rewritten, calls>>
                   /\ UNCHANGED <<thr, htab, owner, out>>
              ELSE /\ visits' = [visits EXCEPT ![e] = IF kind # "none" THEN @ + 1 ELSE @]
                   /\ rewritten' = [rewritten EXCEPT ![e] = IF rewrite THEN @ + 1 ELSE @]
                   /\ htab' = IF hashed THEN h_mins_table(htab, nd.ino, nd.dev) ELSE htab
                   /\ calls' = [calls EXCEPT ![e] = @ \o cs]
                   /\ out' = [out EXCEPT ![e] = @ + lines]
                   /\ owner' = [owner EXCEPT ![resolve(e, chown_fn(kind))] =
                                                  apply_calls(@, cs)]
                   /\ thr' = [thr EXCEPT ![w] =
                        [t EXCEPT !.oname = oname_after(@, cs, lines),
                                  !.p_anchor = IF idle /\ more THEN deq_put(p1, w1) ELSE p1,
                                  !.w_element = IF idle THEN w1 ELSE @,
                                  !.backtodeq = IF idle /\ more THEN 1 ELSE @,
                                  !.too_many_idle_threads = IF idle THEN 1 ELSE @,
                                  !.dp = IF idle THEN readdir_pos(list, pos1) ELSE pos1]]
                   /\ UNCHANGED crashed
      /\ UNCHANGED <<config, fast_anchor, slow_anchor, busy_count, notfinished,
                     fast_nodes_befor_next_slow_node, thr_queue, freed, flips>>

\* a loop end that leaves the stream open
closedir_skipped(dp) == dp

\* closedir(dp): the worker holds no directory stream afterwards
closedir(dp) == -1

\* the readdir loop has ended: closedir, and either the start of a handback
\* (too many idle threads and more than one element in the private deque) or
\* the next pass of the while loop
ScanEnd(w) ==
  LET t == thr[w]
      handback == t.too_many_idle_threads = 1 /\ element_counter(t.p_anchor) > 1
  IN  /\ at(w, "scan")
      /\ t.too_many_idle_threads = 1 \/ t.dp >= Len(Paths[t.w_element.name].list)
      /\ thr' = [thr EXCEPT ![w] =
           IF handback
           THEN [t EXCEPT !.dp = closedir(@),
                          !.j = element_counter(t.p_anchor) - 1,
                          !.first_deq_element =
                             IF dual_queue = 1 THEN deq_first(t.p_anchor) ELSE @,
                          !.p_anchor = IF dual_queue = 1 THEN deq_get(@) ELSE @,
                          !.pc = "handback"]
           ELSE [t EXCEPT !.dp = closedir(@), !.pc = "top"]]
      /\ UNCHANGED <<config, fast_anchor, slow_anchor, busy_count, notfinished,
                     fast_nodes_befor_next_slow_node, thr_queue, htab, owner, freed,
                     crashed, visits, rewritten, calls, out, flips>>

\* a scan rate that is 0 when no time has gone by
scanrate_or_zero(directories_scanned, delta) ==
  IF delta > 0 THEN (directories_scanned * SpeedUnit) \div delta ELSE 0

\* scanrate = (delta > 0) ? directories_scanned / delta : directories_scanned
scanrate(directories_scanned, delta) ==
  IF delta > 0 THEN (directories_scanned * SpeedUnit) \div delta
  ELSE directories_scanned * SpeedUnit

\* a handback that appends in both modes
splice_back(global, local) == deq_append(global, local)

\* deq_prepend in stack mode, deq_append in queue mode
splice(global, local) ==
  IF stack = 1 THEN deq_prepend(global, local) ELSE deq_append(global, local)

\* the critical section of the handback: the private deque goes to the fast
\* or to the slow deque
Handback(w) ==
  LET t == thr[w]
  IN  /\ at(w, "handback")
      /\ thr_queue = 0
      /\ IF dual_queue = 1
         THEN \E delta \in Deltas :
                LET rate == scanrate(t.directories_scanned, delta)
                IN  IF 2 * rate >= fast_anchor.speed + slow_anchor.speed
                    THEN /\ fast_anchor' = [splice(fast_anchor, t.p_anchor) EXCEPT !.speed = rate]
                         /\ UNCHANGED slow_anchor
                    ELSE /\ slow_anchor' = [splice(slow_anchor, t.p_anchor) EXCEPT !.speed = rate]
                         /\ UNCHANGED fast_anchor
         ELSE /\ fast_anchor' = splice(fast_anchor, t.p_anchor)
              /\ UNCHANGED slow_anchor
      /\ thr' = [thr EXCEPT ![w] = [t EXCEPT !.p_anchor = deq_init, !.pc = "signal"]]
      /\ UNCHANGED <<config, busy_count, notfinished, fast_nodes_befor_next_slow_node,
                     thr_queue, htab, owner, freed, crashed, visits, rewritten, calls, out, flips>>

\* for (j = 0; j < deq_count - 1; j++) pthread_cond_signal(&queue_empty): one
\* call, which wakes one of the waiting threads if there is any; after the
\* last call the kept element is put back and directories_scanned is reset
Signal(w) ==
  LET t == thr[w]
      done == IF t.j = 1
              THEN [t EXCEPT !.j = 0,
                             !.p_anchor = IF t.first_deq_element = NULL THEN @
                                          ELSE deq_put(@, t.first_deq_element),
                             !.first_deq_element = NULL,
                             !.directories_scanned = 0,
                             !.pc = "top"]
              ELSE [t EXCEPT !.j = @ - 1]
  IN  /\ at(w, "signal")
      /\ t.j > 0
      /\ IF Waiters = {}
         THEN thr' = [thr EXCEPT ![w] = done]
         ELSE \E v \in Waiters :
                thr' = [thr EXCEPT ![w] = done, ![v].pc = "lock"]
      /\ UNCHANGED <<config, fast_anchor, slow_anchor, busy_count, notfinished,
                     fast_nodes_befor_next_slow_node, thr_queue, htab, owner, freed,
                     crashed, visits, rewritten, calls, out, flips>>

(***************************************************************************)
(* chuid.c, main: the option -t                                            *)
(***************************************************************************)
OPENFILES_OFFSET == 5

PTHREAD_THREADS_MAX == 256

\* size_t numthr = 20
DEFAULT_NUMTHR == 20

\* a - b in size_t: a negative number stands for the value 2^64 larger (the
\* two's complement reading of the result)
size_sub(a, b) == a - b

\* x < y in size_t, on the two's complement reading
size_less(x, y) == IF (x < 0) = (y < 0) THEN x < y ELSE y < 0

\* main before getopt: the globals as their initialisers leave them, no
\* deque, no hardlink table and no thread yet
InitOptions ==
  /\ main = "getopt"
  /\ handlers = <<>>
  /\ teardown = <<>>
  /\ scanned = <<>>
  /\ h_calls = <<>>
  /\ reporter = <<>>
  /\ timer = <<>>
  /\ deq_call = <<>>
  /\ anchors = <<>>
  /\ heap = <<>>
  /\ locks = NoLocks
  /\ streak = NoStreak
  /\ optarg \in {<<n>> : n \in ThreadArgs} \cup {<<>>}
  /\ max_openfiles \in OpenMax
  /\ numthr = DEFAULT_NUMTHR
  /\ stack = 1
  /\ dual_queue = 1
  /\ dryrun = 0
  /\ busythreshold = 9
  /\ begin_uidpair = <<>>
  /\ begin_gidpair = <<>>
  /\ eperm = {}
  /\ enoent = {}
  /\ eacces = {}
  /\ fast_anchor = NULL
  /\ slow_anchor = NULL
  /\ busy_count = 0
  /\ notfinished = 1
  /\ fast_nodes_befor_next_slow_node = 0
  /\ thr_queue = 0
  /\ htab = NULL
  /\ owner = [n0 \in NodeIds |-> [uid |-> Nodes[n0].uid, gid |-> Nodes[n0].gid]]
  /\ thr = <<>>
  /\ freed = {}
  /\ crashed = FALSE
  /\ visits = [p \in PathIds |-> 0]
  /\ rewritten = [p \in PathIds |-> 0]
  /\ calls = [p \in PathIds |-> <<>>]
  /\ out = [p \in PathIds |-> 0]
  /\ flips = 0
  /\ SingleRun

\* case 't': sscanf(optarg, "%lu", &numthr), the range test and the test
\* against the descriptor limit
OptionT ==
  /\ main = "getopt"
  /\ optarg # <<>>
  /\ IF optarg[1] > PTHREAD_THREADS_MAX
     THEN /\ numthr' = optarg[1]
          /\ main' = "exit"
     ELSE IF size_less(size_sub(max_openfiles, optarg[1]), OPENFILES_OFFSET)
     THEN /\ numthr' = max_openfiles - OPENFILES_OFFSET
          /\ main' = "run"
     ELSE /\ numthr' = optarg[1]
          /\ main' = "run"
  /\ UNCHANGED <<stack, dual_queue, dryrun, busythreshold, streak, h_calls, begin_uidpair, begin_gidpair,
                 eperm, enoent, eacces, reporter, timer, deq_call, anchors, heap, locks, max_openfiles, optarg, fast_anchor, slow_anchor, busy_count,
                 notfinished, fast_nodes_befor_next_slow_node, thr_queue, htab, owner,
                 thr, freed, crashed, visits, rewritten, calls, out, flips,
                 run, plan, first, handlers, teardown, scanned>>

\* getopt returns -1 without having met -t: numthr keeps its initial value
NoOptionT ==
  /\ main = "getopt"
  /\ optarg = <<>>
  /\ main' = "run"
  /\ UNCHANGED <<numthr, stack, dual_queue, dryrun, busythreshold, streak, h_calls, begin_uidpair,
                 begin_gidpair, eperm, enoent, eacces, reporter, timer, deq_call, anchors, heap, locks, max_openfiles, optarg, fast_anchor, slow_anchor,
                 busy_count, notfinished, fast_nodes_befor_next_slow_node, thr_queue, htab,
                 owner, thr, freed, crashed, visits, rewritten, calls, out, flips,
                 run, plan, first, handlers, teardown, scanned>>

NextOptions == OptionT \/ NoOptionT

SpecOptions == InitOptions /\ [][NextOptions]_vars

(***************************************************************************)
(* The dual-queue dispatch on its own: idle workers meet shared deques     *)
(* that earlier handbacks have filled                                      *)
(***************************************************************************)
\* the elements of the directories dirs, none of them scanned yet
RECURSIVE Filled(_, _)
Filled(dirs, anchor) ==
  IF dirs = <<>> THEN anchor
  ELSE Filled(Tail(dirs), deq_put(anchor, QueueElement(Head(dirs), 0)))

\* every worker is about to lock thr_queue, none is busy, the scan is not
\* finished.  The speeds are as handbacks and dispatches leave them: the fast
\* speed is not below the slow speed, and a slow deque that holds an element
\* has a speed above 0.  The credit is the one computed at the last dispatch
\* from the slow deque.
InitDispatch ==
  /\ numthr = MaxWorkers
  /\ optarg = <<numthr>>
  /\ max_openfiles = SC_OPEN_MAX
  /\ main = "run"
  /\ handlers = <<>>
  /\ teardown = <<>>
  /\ scanned = <<>>
  /\ h_calls = <<>>
  /\ reporter = <<>>
  /\ timer = <<>>
  /\ deq_call = <<>>
  /\ anchors = <<>>
  /\ heap = <<>>
  /\ locks = NoLocks
  /\ stack \in {0, 1}
  /\ dual_queue = 1
  /\ dryrun = 0
  /\ busythreshold = 9
  /\ begin_uidpair = <<>>
  /\ begin_gidpair = <<>>
  /\ eperm = {}
  /\ enoent = {}
  /\ eacces = {}
  /\ \E f \in FastInputs : \E s \in SlowInputs :
     \E fs \in SpeedInputs : \E ss \in SpeedInputs :
       /\ fs >= ss
       /\ s # <<>> => ss > 0
       /\ fast_anchor = [Filled(f, deq_init) EXCEPT !.speed = fs]
       /\ slow_anchor = [Filled(s, deq_init) EXCEPT !.speed = ss]
  /\ fast_nodes_befor_next_slow_node \in CreditInputs
  /\ streak = [n |-> 0, c |-> fast_nodes_befor_next_slow_node]
  /\ busy_count = 0
  /\ notfinished = 1
  /\ thr_queue = 0
  /\ htab = {}
  /\ owner = [n0 \in NodeIds |-> [uid |-> Nodes[n0].uid, gid |-> Nodes[n0].gid]]
  /\ thr = [w \in 1..numthr |-> IdleLocals("lock")]
  /\ freed = {}
  /\ crashed = FALSE
  /\ visits = [p \in PathIds |-> 0]
  /\ rewritten = [p \in PathIds |-> 0]
  /\ calls = [p \in PathIds |-> <<>>]
  /\ out = [p \in PathIds |-> 0]
  /\ flips = 0
  /\ SingleRun

NextDispatch == \E w \in 1..MaxWorkers : Dispatch(w)

SpecDispatch == InitDispatch /\ [][NextDispatch]_vars

(***************************************************************************)
(* The hardlink table on its own: h_init, then calls of h_mins             *)
(***************************************************************************)
\* main after h_init(mod, het_tab_size): nothing else of the run has begun
InitHash ==
  /\ \E mod \in InitMods : \E het_tab_size \in InitTabSizes :
       htab = h_init(mod, het_tab_size)
  /\ h_calls = <<>>
  /\ reporter = <<>>
  /\ timer = <<>>
  /\ deq_call = <<>>
  /\ anchors = <<>>
  /\ heap = <<>>
  /\ locks = NoLocks
  /\ streak = NoStreak
  /\ main = "run"
  /\ handlers = <<>>
  /\ teardown = <<>>
  /\ scanned = <<>>
  /\ optarg = <<>>
  /\ max_openfiles = SC_OPEN_MAX
  /\ numthr = DEFAULT_NUMTHR
  /\ stack = 1
  /\ dual_queue = 1
  /\ dryrun = 0
  /\ busythreshold = 9
  /\ begin_uidpair = <<>>
  /\ begin_gidpair = <<>>
  /\ eperm = {}
  /\ enoent = {}
  /\ eacces = {}
  /\ fast_anchor = NULL
  /\ slow_anchor = NULL
  /\ busy_count = 0
  /\ notfinished = 1
  /\ fast_nodes_befor_next_slow_node = 0
  /\ thr_queue = 0
  /\ owner = [n0 \in NodeIds |-> [uid |-> Nodes[n0].uid, gid |-> Nodes[n0].gid]]
  /\ thr = <<>>
  /\ freed = {}
  /\ crashed = FALSE
  /\ visits = [p \in PathIds |-> 0]
  /\ rewritten = [p \in PathIds |-> 0]
  /\ calls = [p \in PathIds |-> <<>>]
  /\ out = [p \in PathIds |-> 0]
  /\ flips = 0
  /\ SingleRun

\* known_nlink_file = h_mins(t_statbuf.st_ino, t_statbuf.st_dev) under thr_nlink
HMins ==
  /\ Len(h_calls) < MaxCalls
  /\ \E ino \in Inos : \E dev \in Devs : \E moved \in BOOLEAN :
       LET r == h_mins(htab, ino, dev, moved)
       IN  /\ htab' = r.ht
           /\ h_calls' = Append(h_calls, [ino |-> ino, dev |-> dev, ret |-> r.ret])
  /\ UNCHANGED <<numthr, stack, dual_queue, dryrun, busythreshold, streak, begin_uidpair,
                 begin_gidpair, eperm, enoent, eacces, reporter, timer, deq_call, anchors, heap, locks, max_openfiles, optarg, main, run, plan, first,
                 handlers, teardown, scanned, fast_anchor, slow_anchor, busy_count,
                 notfinished, fast_nodes_befor_next_slow_node, thr_queue, owner, thr,
                 freed, crashed, visits, rewritten, calls, out, flips>>

NextHash == HMins

SpecHash == InitHash /\ [][NextHash]_vars

(***************************************************************************)
(* queue.c: calls of its functions on two deques, in any order             *)
(***************************************************************************)
\* the elements of a deque in order: element_counter elements from first
items(h, anchor) == walk(h, anchor.first, anchor.element_counter)

\* the queue elements linked into neither deque
Unlinked ==
  {e \in Elements :
     \A d \in {"global", "local"} :
       \A i \in DOMAIN walk(heap, anchors[d].first, MaxElems) :
         walk(heap, anchors[d].first, MaxElems)[i] # e}

\* what a caller passes as new: an element that is in no deque, or NULL
NewElements == {<<e>> : e \in Unlinked} \cup {<<>>}

\* the two deques as the call finds them
Before == [global |-> items(heap, anchors.global), local |-> items(heap, anchors.local)]

NoCall == [op |-> "none", d |-> "global", new |-> <<>>, ret |-> <<>>,
           before |-> [global |-> <<>>, local |-> <<>>]]

\* what no function of queue.c changes
not_queue ==
  <<numthr, stack, dual_queue, dryrun, busythreshold, begin_uidpair, begin_gidpair,
    eperm, enoent, eacces, reporter, timer, locks, max_openfiles, optarg, main, run, plan, first,
    handlers, teardown, scanned, h_calls, streak, fast_anchor, slow_anchor,
    busy_count, notfinished, fast_nodes_befor_next_slow_node, thr_queue, htab,
    owner, thr, freed, visits, rewritten, calls, out, flips>>

\* main after deq_init (chuid.c:1765) and process_tile after deq_init (636):
\* two empty deques, no element linked
InitDeque ==
  /\ heap = NoLinks
  /\ anchors = [global |-> q_init, local |-> q_init]
  /\ deq_call = NoCall
  /\ htab = {}
  /\ h_calls = <<>>
  /\ reporter = <<>>
  /\ timer = <<>>
  /\ locks = NoLocks
  /\ streak = NoStreak
  /\ main = "run"
  /\ handlers = <<>>
  /\ teardown = <<>>
  /\ scanned = <<>>
  /\ optarg = <<>>
  /\ max_openfiles = SC_OPEN_MAX
  /\ numthr = DEFAULT_NUMTHR
  /\ stack \in {0, 1}
  /\ dual_queue = 1
  /\ dryrun = 0
  /\ busythreshold = 9
  /\ begin_uidpair = <<>>
  /\ begin_gidpair = <<>>
  /\ eperm = {}
  /\ enoent = {}
  /\ eacces = {}
  /\ fast_anchor = NULL
  /\ slow_anchor = NULL
  /\ busy_count = 0
  /\ notfinished = 1
  /\ fast_nodes_befor_next_slow_node = 0
  /\ thr_queue = 0
  /\ owner = [n0 \in NodeIds |-> [uid |-> Nodes[n0].uid, gid |-> Nodes[n0].gid]]
  /\ thr = <<>>
  /\ freed = {}
  /\ crashed = FALSE
  /\ visits = [p \in PathIds |-> 0]
  /\ rewritten = [p \in PathIds |-> 0]
  /\ calls = [p \in PathIds |-> <<>>]
  /\ out = [p \in PathIds |-> 0]
  /\ flips = 0
  /\ SingleRun

\* deq_put(anchor, new)
DeqPut(d) ==
  /\ ~crashed
  /\ \E new \in NewElements :
       LET r == q_put(heap, anchors[d], new)
       IN  /\ heap' = r.heap
           /\ anchors' = [anchors EXCEPT ![d] = r.anchor]
           /\ crashed' = r.fault
           /\ deq_call' = [op |-> "deq_put", d |-> d, new |-> new, ret |-> <<>>,
                           before |-> Before]
  /\ UNCHANGED not_queue

\* deq_push(anchor, new)
DeqPush(d) ==
  /\ ~crashed
  /\ \E new \in NewElements :
       LET r == q_push(heap, anchors[d], new)
       IN  /\ heap' = r.heap
           /\ anchors' = [anchors EXCEPT ![d] = r.anchor]
           /\ crashed' = r.fault
           /\ deq_call' = [op |-> "deq_push", d |-> d, new |-> new, ret |-> <<>>,
                           before |-> Before]
  /\ UNCHANGED not_queue

\* ret = deq_get(anchor)
DeqGet(d) ==
  /\ ~crashed
  /\ LET r == q_get(heap, anchors[d])
     IN  /\ heap' = r.heap
         /\ anchors' = [anchors EXCEPT ![d] = r.anchor]
         /\ crashed' = r.fault
         /\ deq_call' = [op |-> "deq_get", d |-> d, new |-> <<>>, ret |-> r.ret,
                         before |-> Before]
  /\ UNCHANGED not_queue

\* deq_append(global, local)
DeqAppend ==
  /\ ~crashed
  /\ LET r == q_append(heap, anchors.global, anchors.local)
     IN  /\ heap' = r.heap
         /\ anchors' = [global |-> r.global, local |-> r.local]
         /\ crashed' = r.fault
         /\ deq_call' = [op |-> "deq_append", d |-> "global", new |-> <<>>, ret |-> <<>>,
                         before |-> Before]
  /\ UNCHANGED not_queue

\* deq_prepend(global, local)
DeqPrepend ==
  /\ ~crashed
  /\ LET r == q_prepend(heap, anchors.global, anchors.local)
     IN  /\ heap' = r.heap
         /\ anchors' = [global |-> r.global, local |-> r.local]
         /\ crashed' = r.fault
         /\ deq_call' = [op |-> "deq_prepend", d |-> "global", new |-> <<>>, ret |-> <<>>,
                         before |-> Before]
  /\ UNCHANGED not_queue

NextDeque ==
  \/ \E d \in {"global", "local"} :
       \/ DeqPut(d)
       \/ DeqPush(d)
       \/ DeqGet(d)
  \/ DeqAppend
  \/ DeqPrepend

SpecDeque == InitDeque /\ [][NextDeque]_vars

(***************************************************************************)
(* chuid.c, process_tile: the clock of the scan rate.  One worker in       *)
(* dual-queue mode between its dispatches: the passes of the while loop,   *)
(* the handbacks, and the time that goes by                                *)
(***************************************************************************)
MaxTime == 2

MaxDirs == 3

\* what the steps of this section leave alone
not_timer ==
  <<numthr, stack, dual_queue, dryrun, busythreshold, begin_uidpair, begin_gidpair,
    eperm, enoent, eacces, reporter, locks, heap, anchors, deq_call, max_openfiles, optarg,
    main, run, plan, first, handlers, teardown, scanned, h_calls, streak,
    fast_anchor, slow_anchor, busy_count, notfinished,
    fast_nodes_befor_next_slow_node, thr_queue, htab, owner, thr, freed, crashed,
    visits, rewritten, calls, out, flips>>

\* process_tile is entered: directories_scanned = 0 (625), gettimeofday(&t1)
\* (638); opened counts the directories opened since then, rates the scan
\* rates computed since then, each with the delta and the count it was made of
Entered(now) ==
  [now |-> now, t1 |-> now, directories_scanned |-> 0, pc |-> "top",
   opened |-> 0, rates |-> <<>>]

\* gettimeofday(&t2, NULL)
gettimeofday(t) == t.now

\* time goes by
Tick ==
  /\ timer.now < MaxTime
  /\ timer' = [timer EXCEPT !.now = @ + 1]
  /\ UNCHANGED not_timer

\* a pass of the while loop begins: if (dual_queue) directories_scanned++,
\* deq_get, opendir, and the readdir loop
Pass ==
  /\ timer.pc = "top"
  /\ timer.opened < MaxDirs
  /\ timer' = [timer EXCEPT !.directories_scanned = IF dual_queue = 1 THEN @ + 1 ELSE @,
                            !.opened = @ + 1,
                            !.pc = "scanned"]
  /\ UNCHANGED not_timer

\* the pass ends with a handback: gettimeofday(&t2), delta, scanrate, and
\* directories_scanned = 0 after the transfer
HandbackRate ==
  /\ timer.pc = "scanned"
  /\ dual_queue = 1
  /\ LET delta == gettimeofday(timer) - timer.t1
         rate  == scanrate(timer.directories_scanned, delta)
     IN  timer' = [timer EXCEPT
                     !.rates = Append(@, [scanrate |-> rate, delta |-> delta,
                                          opened |-> timer.opened]),
                     !.directories_scanned = 0,
                     !.pc = "top"]
  /\ UNCHANGED not_timer

\* the pass ends without a handback
PassEnd ==
  /\ timer.pc = "scanned"
  /\ timer' = [timer EXCEPT !.pc = "top"]
  /\ UNCHANGED not_timer

\* process_tile returns, and the worker is dispatched again
Redispatch ==
  /\ timer.pc = "top"
  /\ timer.opened > 0
  /\ timer' = Entered(timer.now)
  /\ UNCHANGED not_timer

\* a dual-queue worker at its first dispatch
InitRate ==
  /\ timer = Entered(0)
  /\ heap = <<>>
  /\ anchors = <<>>
  /\ deq_call = <<>>
  /\ htab = {}
  /\ h_calls = <<>>
  /\ reporter = <<>>
  /\ locks = NoLocks
  /\ streak = NoStreak
  /\ main = "run"
  /\ handlers = <<>>
  /\ teardown = <<>>
  /\ scanned = <<>>
  /\ optarg = <<>>
  /\ max_openfiles = SC_OPEN_MAX
  /\ numthr = DEFAULT_NUMTHR
  /\ stack \in {0, 1}
  /\ dual_queue = 1
  /\ dryrun = 0
  /\ busythreshold = 9
  /\ begin_uidpair = <<>>
  /\ begin_gidpair = <<>>
  /\ eperm = {}
  /\ enoent = {}
  /\ eacces = {}
  /\ fast_anchor = NULL
  /\ slow_anchor = NULL
  /\ busy_count = 0
  /\ notfinished = 1
  /\ fast_nodes_befor_next_slow_node = 0
  /\ thr_queue = 0
  /\ owner = [n0 \in NodeIds |-> [uid |-> Nodes[n0].uid, gid |-> Nodes[n0].gid]]
  /\ thr = <<>>
  /\ freed = {}
  /\ crashed = FALSE
  /\ visits = [p \in PathIds |-> 0]
  /\ rewritten = [p \in PathIds |-> 0]
  /\ calls = [p \in PathIds |-> <<>>]
  /\ out = [p \in PathIds |-> 0]
  /\ flips = 0
  /\ SingleRun

NextRate ==
  \/ Tick
  \/ Pass
  \/ HandbackRate
  \/ PassEnd
  \/ Redispatch

SpecRate == InitRate /\ [][NextRate]_vars

(***************************************************************************)
(* chuid.c, statistic: the thread that prints the rates.  The workers      *)
(* count what they process in stat_counters; every interval seconds the    *)
(* thread sums the counters and prints the rates since its last line       *)
(***************************************************************************)
MaxCounted == 3

MaxInterval == 2

MaxLines == 3

MaxReported == 2

Counters == {"filecounter", "dircounter", "otherscounter", "linkcounter"}

\* what the steps of this section leave alone
not_reporter ==
  <<numthr, stack, dual_queue, dryrun, busythreshold, begin_uidpair, begin_gidpair,
    eperm, enoent, eacces, timer, locks, heap, anchors, deq_call, max_openfiles, optarg,
    main, run, plan, first, handlers, teardown, scanned, h_calls, streak,
    fast_anchor, slow_anchor, busy_count, notfinished,
    fast_nodes_befor_next_slow_node, thr_queue, htab, owner, thr, freed, crashed,
    visits, rewritten, calls, out, flips>>

RECURSIVE counted(_, _, _)
\* for (i = 0; i < n; i++) total += stat_counters[i].counter
counted(stat_counters, counter, n) ==
  IF n = 0 THEN 0
  ELSE counted(stat_counters, counter, n - 1) + stat_counters[n - 1][counter]

\* everything counted so far, by all workers
Counted(stat_counters) ==
  counted(stat_counters, "filecounter", numthr) + counted(stat_counters, "dircounter", numthr)
    + counted(stat_counters, "otherscounter", numthr) + counted(stat_counters, "linkcounter", numthr)

\* the thread starts: calloc'ed counters, the locals at 0, the header printed
Started(n, seconds) ==
  [stat_counters |-> [i \in 0..(n - 1) |-> [c \in Counters |-> 0]],
   interval |-> seconds,
   ofilecount |-> 0, odircount |-> 0, olinkcount |-> 0,
   gfilecount |-> 0, glinkcount |-> 0, gdircount |-> 0, glcount |-> 0, gocount |-> 0,
   lines |-> 0, printed |-> <<>>, previous |-> [c \in Counters |-> 0]]

\* a worker counts an entry: stat_counters[tid].counter++
Count(tid, counter) ==
  /\ tid < numthr
  /\ notfinished = 1
  /\ Counted(reporter.stat_counters) < MaxCounted
  /\ reporter' = [reporter EXCEPT !.stat_counters[tid][counter] = @ + 1]
  /\ UNCHANGED not_reporter

\* one pass of statistic's while loop: the sums, the rates (unsigned long by
\* unsigned int: the quotient is an integer), the line, the resets.  The
\* line is kept with the sums of the counters at this line and at the line
\* before
statistic ==
  /\ notfinished = 1
  /\ reporter.lines < MaxLines
  /\ LET c == reporter.stat_counters
         gfilecount == reporter.gfilecount + counted(c, "filecounter", numthr)
         gdircount  == reporter.gdircount + counted(c, "dircounter", numthr)
         gocount    == reporter.gocount + counted(c, "otherscounter", numthr)
         glcount    == reporter.glcount + counted(c, "linkcounter", numthr)
         fscanrate  == (gfilecount - reporter.ofilecount) \div reporter.interval
         dscanrate  == (gdircount - reporter.odircount) \div reporter.interval
         lscanrate  == (reporter.glinkcount - reporter.olinkcount) \div reporter.interval
         now        == [k \in Counters |-> counted(c, k, numthr)]
     IN  reporter' = [reporter EXCEPT
                        !.ofilecount = gfilecount,
                        !.odircount = gdircount,
                        !.olinkcount = reporter.glinkcount,
                        !.gfilecount = 0,
                        !.gdircount = 0,
                        !.glcount = 0,
                        !.gocount = 0,
                        !.lines = @ + 1,
                        !.printed = <<[files |-> gfilecount, fscanrate |-> fscanrate,
                                       dscanrate |-> dscanrate, lscanrate |-> lscanrate,
                                       now |-> now, before |-> reporter.previous]>>,
                        !.previous = now]
  /\ UNCHANGED not_reporter

\* the run ends: the last worker (1518) or the signal handler (1549) clears
\* notfinished, and the thread leaves its loop
Finished ==
  /\ notfinished = 1
  /\ notfinished' = 0
  /\ UNCHANGED <<numthr, stack, dual_queue, dryrun, busythreshold, begin_uidpair,
                 begin_gidpair, eperm, enoent, eacces, reporter, timer, locks, heap,
                 anchors, deq_call, max_openfiles, optarg, main, run, plan, first,
                 handlers, teardown, scanned, h_calls, streak, fast_anchor,
                 slow_anchor, busy_count, fast_nodes_befor_next_slow_node,
                 thr_queue, htab, owner, thr, freed, crashed, visits, rewritten,
                 calls, out, flips>>

\* the thread and the workers at their start, with -s 1 or -s 2
InitStats ==
  /\ numthr \in 1..MaxReported
  /\ \E seconds \in 1..MaxInterval : reporter = Started(numthr, seconds)
  /\ timer = <<>>
  /\ heap = <<>>
  /\ anchors = <<>>
  /\ deq_call = <<>>
  /\ htab = {}
  /\ h_calls = <<>>
  /\ locks = NoLocks
  /\ streak = NoStreak
  /\ main = "run"
  /\ handlers = <<>>
  /\ teardown = <<>>
  /\ scanned = <<>>
  /\ optarg = <<>>
  /\ max_openfiles = SC_OPEN_MAX
  /\ stack = 1
  /\ dual_queue \in {0, 1}
  /\ dryrun = 0
  /\ busythreshold = 9
  /\ begin_uidpair = <<>>
  /\ begin_gidpair = <<>>
  /\ eperm = {}
  /\ enoent = {}
  /\ eacces = {}
  /\ fast_anchor = NULL
  /\ slow_anchor = NULL
  /\ busy_count = 0
  /\ notfinished = 1
  /\ fast_nodes_befor_next_slow_node = 0
  /\ thr_queue = 0
  /\ owner = [n0 \in NodeIds |-> [uid |-> Nodes[n0].uid, gid |-> Nodes[n0].gid]]
  /\ thr = <<>>
  /\ freed = {}
  /\ crashed = FALSE
  /\ visits = [p \in PathIds |-> 0]
  /\ rewritten = [p \in PathIds |-> 0]
  /\ calls = [p \in PathIds |-> <<>>]
  /\ out = [p \in PathIds |-> 0]
  /\ flips = 0
  /\ SingleRun

NextStats ==
  \/ \E tid \in 0..(MaxReported - 1), counter \in Counters : Count(tid, counter)
  \/ statistic
  \/ Finished

SpecStats == InitStats /\ [][NextStats]_vars


(***************************************************************************)
(* The runs                                                                *)
(***************************************************************************)
Next ==
  \E w \in 1..MaxThr :
       \/ LoopTest(w)
       \/ Dispatch(w)
       \/ CondWait(w)
       \/ SpuriousWakeup(w)
       \/ TileTop(w)
       \/ TileExit(w)
       \/ ReadDir(w)
       \/ ScanEnd(w)
       \/ Handback(w)
       \/ Signal(w)
       \/ Release(w)

Spec == Init /\ [][Next]_vars

\* the scheduler runs every thread that can run, and a thread that asks for
\* the mutex again and again gets it
Step(w) ==
  \/ LoopTest(w) \/ Dispatch(w) \/ CondWait(w) \/ TileTop(w) \/ TileExit(w)
  \/ ReadDir(w) \/ ScanEnd(w) \/ Handback(w) \/ Signal(w) \/ Release(w)

Fairness ==
  \A w \in 1..MaxThr :
    /\ WF_vars(Step(w))
    /\ SF_vars(Dispatch(w))
    /\ SF_vars(Handback(w))
    /\ SF_vars(Release(w))

SpecFair == Init /\ [][Next]_vars /\ Fairness

\* a run in which the idle check is true after every child: -b 1.5, and
\* busy_count / numthr is never above 1
InitIdle ==
  /\ \E n \in 1..MaxThr : InitRun(n, RoundTripMap) /\ SingleRun
  /\ busythreshold > 10
  /\ dryrun = 0
  /\ eperm = {}

SpecIdle == InitIdle /\ [][Next]_vars /\ Fairness

(***************************************************************************)
(* A dual-queue run that meets failures of chown, lstat or opendir         *)
(***************************************************************************)
InitErrors ==
  /\ \E n \in 1..MaxThr : \E maps \in MapInputs : InitEngine(n, maps)
  /\ \E f \in ErrorInputs : eperm = f.eperm /\ enoent = f.enoent /\ eacces = f.eacces
  /\ dual_queue = 1
  /\ dryrun = 0
  /\ SingleRun

SpecErrors == InitErrors /\ [][Next]_vars

(***************************************************************************)
(* Two runs of the program on the same tree                                *)
(***************************************************************************)
\* the first run has ended (every worker has left handle_subtree and main has
\* joined it) and the program is started again, with the same options and
\* with the same or the inverse map file: every variable of the program is
\* set as in the first start, the file system is as the first run left it
Restart ==
  /\ run = 1
  /\ ~crashed
  /\ \A w \in Threads : thr[w].pc = "exited"
  /\ run' = 2
  /\ first' = [owner |-> owner, visited |-> {p \in PathIds : visits[p] > 0}]
  /\ begin_uidpair' = IF plan = "inverse" THEN parseuidlist(inverse(begin_uidpair), <<>>)
                      ELSE begin_uidpair
  /\ begin_gidpair' = IF plan = "inverse" THEN parseuidlist(inverse(begin_gidpair), <<>>)
                      ELSE begin_gidpair
  /\ fast_anchor' = SeedRoots(RootList, deq_init)
  /\ slow_anchor' = deq_init
  /\ busy_count' = 0
  /\ notfinished' = 1
  /\ fast_nodes_befor_next_slow_node' = 0
  /\ thr_queue' = 0
  /\ htab' = {}
  /\ thr' = [w \in Threads |-> IdleLocals("loop")]
  /\ freed' = {}
  /\ visits' = [p \in PathIds |-> 0]
  /\ rewritten' = [p \in PathIds |-> 0]
  /\ calls' = [p \in PathIds |-> <<>>]
  /\ out' = [p \in PathIds |-> 0]
  /\ flips' = 0
  /\ streak' = NoStreak
  /\ UNCHANGED <<numthr, stack, dual_queue, dryrun, busythreshold, h_calls, eperm, enoent, eacces, reporter, timer, deq_call, anchors, heap, locks, max_openfiles,
                 optarg, main, plan, owner, crashed, handlers, teardown, scanned>>

\* real runs with the default busy threshold in which every chown is
\* permitted, run twice
InitTwice ==
  /\ \E n \in 1..MaxThr :
       \/ \E maps \in MapInputs \cup {RoundTripMap} : InitRun(n, maps) /\ plan = "same"
       \/ InitRun(n, RoundTripMap) /\ plan = "inverse"
  /\ dryrun = 0
  /\ busythreshold = 9
  /\ eperm = {}
  /\ run = 1
  /\ first = <<>>

NextTwice ==
  \/ \E w \in 1..MaxThr :
       \/ LoopTest(w)
       \/ Dispatch(w)
       \/ CondWait(w)
       \/ SpuriousWakeup(w)
       \/ TileTop(w)
       \/ TileExit(w)
       \/ ReadDir(w)
       \/ ScanEnd(w)
       \/ Handback(w)
       \/ Signal(w)
       \/ Release(w)
  \/ Restart

SpecTwice == InitTwice /\ [][NextTwice]_vars

(***************************************************************************)
(* chuid.c, handler and the end of main: runs with signals                 *)
(***************************************************************************)
\* invocation h of the handler runs: no later invocation has interrupted it
\* on its thread
running(h) ==
  /\ h \in DOMAIN handlers
  /\ alive
  /\ \A k \in DOMAIN handlers : k > h => handlers[k].ctx # handlers[h].ctx

\* the steps a join or free can take: on an object that has been joined or
\* freed before the behaviour is undefined
outcomes(step) ==
  IF \E i \in DOMAIN teardown : teardown[i].step = step THEN {"ok", "crash"} ELSE {"ok"}

\* pthread_join of the calling thread: POSIX lets the call fail with EDEADLK
\* or never return; the main thread is not among threads[]
join_self(c) == IF c = 0 THEN {"none"} ELSE {"EDEADLK", "deadlock"}

\* SIGINT, SIGQUIT or SIGTERM is delivered to thread c, which does not block
\* it (0: the main thread), and the handler runs up to the unlock of
\* thr_handler: if (notfinished) { notfinished = 0; broadcast }
Deliver(c) ==
  /\ alive
  /\ Len(handlers) < MaxSignals
  /\ c = 0 \/ (c \in Threads /\ thr[c].pc # "exited")
  /\ \E r \in join_self(c) : handlers' = Append(handlers, [ctx |-> c, pc |-> "join", self |-> r])
  /\ IF notfinished = 1
     THEN /\ notfinished' = 0
          /\ flips' = flips + 1
          /\ thr' = [v \in Threads |->
                       IF v \in Waiters THEN [thr[v] EXCEPT !.pc = "lock"] ELSE thr[v]]
          /\ scanned' = [v \in Threads |->
                           IF thr[v].pc = "scan" THEN thr[v].w_element.name ELSE 0]
     ELSE UNCHANGED <<notfinished, flips, thr, scanned>>
  /\ UNCHANGED <<numthr, stack, dual_queue, dryrun, busythreshold, streak, h_calls, begin_uidpair,
                 begin_gidpair, eperm, enoent, eacces, reporter, timer, deq_call, anchors, heap, locks, max_openfiles, optarg, main, run, plan, first,
                 teardown, fast_anchor, slow_anchor, busy_count,
                 fast_nodes_befor_next_slow_node, thr_queue, htab, owner, freed,
                 crashed, visits, rewritten, calls, out>>

\* for (i = 0; i < numthr; i++) pthread_join(threads[i], NULL): each call
\* returns when the thread has exited, and with EDEADLK for the calling thread
HandlerJoin(h) ==
  /\ running(h)
  /\ handlers[h].pc = "join"
  /\ handlers[h].self # "deadlock"
  /\ \A w \in Threads : w = handlers[h].ctx \/ thr[w].pc = "exited"
  /\ \E o \in outcomes("join") : crashed' = (o = "crash")
  /\ teardown' = Append(teardown, [by |-> h, step |-> "join"])
  /\ handlers' = [handlers EXCEPT ![h].pc = "frees"]
  /\ UNCHANGED <<numthr, stack, dual_queue, dryrun, busythreshold, streak, h_calls, begin_uidpair,
                 begin_gidpair, eperm, enoent, eacces, reporter, timer, deq_call, anchors, heap, locks, max_openfiles, optarg, main, run, plan, first,
                 scanned, fast_anchor, slow_anchor, busy_count, notfinished,
                 fast_nodes_befor_next_slow_node, thr_queue, htab, owner, thr, freed,
                 visits, rewritten, calls, out, flips>>

\* free(htab->het_tab) ... delete_ex_list() of the handler
HandlerFrees(h) ==
  /\ running(h)
  /\ handlers[h].pc = "frees"
  /\ \E o \in outcomes("free") : crashed' = (o = "crash")
  /\ teardown' = Append(teardown, [by |-> h, step |-> "free"])
  /\ handlers' = [handlers EXCEPT ![h].pc = "exit"]
  /\ UNCHANGED <<numthr, stack, dual_queue, dryrun, busythreshold, streak, h_calls, begin_uidpair,
                 begin_gidpair, eperm, enoent, eacces, reporter, timer, deq_call, anchors, heap, locks, max_openfiles, optarg, main, run, plan, first,
                 scanned, fast_anchor, slow_anchor, busy_count, notfinished,
                 fast_nodes_befor_next_slow_node, thr_queue, htab, owner, thr, freed,
                 visits, rewritten, calls, out, flips>>

\* fclose(fplog); exit(EXIT_FAILURE)
HandlerExit(h) ==
  /\ running(h)
  /\ handlers[h].pc = "exit"
  /\ main' = "exited"
  /\ handlers' = [handlers EXCEPT ![h].pc = "exited"]
  /\ UNCHANGED <<numthr, stack, dual_queue, dryrun, busythreshold, streak, h_calls, begin_uidpair,
                 begin_gidpair, eperm, enoent, eacces, reporter, timer, deq_call, anchors, heap, locks, max_openfiles, optarg, run, plan, first,
                 teardown, scanned, fast_anchor, slow_anchor, busy_count, notfinished,
                 fast_nodes_befor_next_slow_node, thr_queue, htab, owner, thr, freed,
                 crashed, visits, rewritten, calls, out, flips>>

\* main: the pthread_join loop has returned for every worker, and the
\* end-of-run frees are made
MainFrees ==
  /\ alive
  /\ ~suspended(0)
  /\ main = "run"
  /\ \A w \in Threads : thr[w].pc = "exited"
  /\ \E o \in outcomes("free") : crashed' = (o = "crash")
  /\ teardown' = teardown \o <<[by |-> 0, step |-> "join"], [by |-> 0, step |-> "free"]>>
  /\ main' = "freed"
  /\ UNCHANGED <<numthr, stack, dual_queue, dryrun, busythreshold, streak, h_calls, begin_uidpair,
                 begin_gidpair, eperm, enoent, eacces, reporter, timer, deq_call, anchors, heap, locks, max_openfiles, optarg, run, plan, first,
                 handlers, scanned, fast_anchor, slow_anchor, busy_count, notfinished,
                 fast_nodes_befor_next_slow_node, thr_queue, htab, owner, thr, freed,
                 visits, rewritten, calls, out, flips>>

\* main: print_error, fclose(fplog), exit(EXIT_SUCCESS)
MainExit ==
  /\ alive
  /\ ~suspended(0)
  /\ main = "freed"
  /\ main' = "exited"
  /\ UNCHANGED <<numthr, stack, dual_queue, dryrun, busythreshold, streak, h_calls, begin_uidpair,
                 begin_gidpair, eperm, enoent, eacces, reporter, timer, deq_call, anchors, heap, locks, max_openfiles, optarg, run, plan, first,
                 handlers, teardown, scanned, fast_anchor, slow_anchor, busy_count,
                 notfinished, fast_nodes_befor_next_slow_node, thr_queue, htab, owner,
                 thr, freed, crashed, visits, rewritten, calls, out, flips>>

\* real runs in the default dual mode, with the default busy threshold, in
\* which every chown is permitted
InitSignal ==
  /\ \E n \in 1..MaxThr : InitRun(n, RoundTripMap)
  /\ SingleRun
  /\ dual_queue = 1
  /\ dryrun = 0
  /\ busythreshold = 9
  /\ eperm = {}

\* what the threads and the handlers do, apart from the arrival of a signal
Progress ==
  \/ \E w \in 1..MaxThr :
       \/ LoopTest(w)
       \/ Dispatch(w)
       \/ CondWait(w)
       \/ SpuriousWakeup(w)
       \/ TileTop(w)
       \/ TileExit(w)
       \/ ReadDir(w)
       \/ ScanEnd(w)
       \/ Handback(w)
       \/ Signal(w)
       \/ Release(w)
  \/ \E h \in 1..MaxSignals :
       \/ HandlerJoin(h)
       \/ HandlerFrees(h)
       \/ HandlerExit(h)
  \/ MainFrees
  \/ MainExit

NextSignal ==
  \/ \E w \in 1..MaxThr :
       \/ LoopTest(w)
       \/ Dispatch(w)
       \/ CondWait(w)
       \/ SpuriousWakeup(w)
       \/ TileTop(w)
       \/ TileExit(w)
       \/ ReadDir(w)
       \/ ScanEnd(w)
       \/ Handback(w)
       \/ Signal(w)
       \/ Release(w)
  \/ \E h \in 1..MaxSignals :
       \/ HandlerJoin(h)
       \/ HandlerFrees(h)
       \/ HandlerExit(h)
  \/ \E c \in 0..MaxThr : Deliver(c)
  \/ MainFrees
  \/ MainExit

SpecSignal == InitSignal /\ [][NextSignal]_vars

(***************************************************************************)
(* chuid.c: the mutexes.  The steps of handle_subtree, process_tile and    *)
(* handler between which a mutex is taken or released; what a worker finds *)
(* in a directory is a free choice                                         *)
(***************************************************************************)
MaxShared == 2

\* the thread that holds the mutex m: <<>> or <<c>>
Holder(m) ==
  IF m = "thr_queue" THEN IF thr_queue = 0 THEN <<>> ELSE <<thr_queue>>
  ELSE locks[m]

\* the calls of pthread_mutex_lock of a worker: the mutex, and where the
\* thread is once it holds it
LockSite ==
  [lock            |-> [m |-> "thr_queue", to |-> "dispatch"],
   relock          |-> [m |-> "thr_queue", to |-> "release"],
   hlock           |-> [m |-> "thr_queue", to |-> "splice"],
   nlink_lock      |-> [m |-> "thr_nlink", to |-> "h_mins"],
   print_lock      |-> [m |-> "thr_print", to |-> "write"],
   idle_print_lock |-> [m |-> "thr_print", to |-> "write_idle"]]

\* the ends of what a worker does outside the critical sections of
\* thr_queue: the mutex it releases there, and where it goes on
UnlockSite ==
  [syscall    |-> [m |-> "none",      to |-> "top"],
   h_mins     |-> [m |-> "thr_nlink", to |-> "top"],
   write      |-> [m |-> "thr_print", to |-> "top"],
   write_idle |-> [m |-> "thr_print", to |-> "hlock"]]

\* what the steps of this section leave alone
untouched ==
  <<numthr, stack, dual_queue, dryrun, busythreshold, begin_uidpair, begin_gidpair,
    eperm, enoent, eacces, reporter, timer, deq_call, anchors, heap, max_openfiles, optarg, main, run, plan, first, teardown,
    scanned, h_calls, streak, slow_anchor, fast_nodes_befor_next_slow_node, htab,
    owner, freed, crashed, visits, rewritten, calls, out>>

\* pthread_mutex_lock returns: the mutex was free and the caller holds it
MutexLock(w) ==
  /\ w \in Threads /\ alive /\ ~suspended(w)
  /\ thr[w].pc \in DOMAIN LockSite
  /\ LET site == LockSite[thr[w].pc]
     IN  /\ Holder(site.m) = <<>>
         /\ IF site.m = "thr_queue"
            THEN thr_queue' = w /\ UNCHANGED locks
            ELSE locks' = [locks EXCEPT ![site.m] = <<w>>] /\ UNCHANGED thr_queue
         /\ thr' = Local(w, "pc", site.to)
  /\ UNCHANGED <<untouched, handlers, fast_anchor, busy_count, notfinished, flips>>

\* handle_subtree with thr_queue held: the wait predicate, then
\* pthread_cond_wait (which releases the mutex), or deq_get, busy_count++
\* and the unlock, or the unlock alone
DispatchLocked(w) ==
  /\ at(w, "dispatch")
  /\ thr_queue' = 0
  /\ IF both_empty /\ notfinished = 1
     THEN /\ thr' = Local(w, "pc", "waiting")
          /\ UNCHANGED <<fast_anchor, busy_count>>
     ELSE IF notfinished = 1 /\ element_counter(fast_anchor) > 0
     THEN /\ fast_anchor' = deq_get(fast_anchor)
          /\ busy_count' = size_inc(busy_count)
          /\ thr' = Local(w, "pc", "top")
     ELSE /\ thr' = Local(w, "pc", "loop")
          /\ UNCHANGED <<fast_anchor, busy_count>>
  /\ UNCHANGED <<untouched, handlers, locks, notfinished, flips>>

\* process_tile, what comes next: a system call (opendir, readdir, lstat,
\* chown, lchown, closedir), h_mins under thr_nlink, print_error_r under
\* thr_print, the handback (print_error_r, then thr_queue), or the return
Choose(w) ==
  /\ at(w, "top")
  /\ \E next \in {"syscall", "nlink_lock", "print_lock", "idle_print_lock", "relock"} :
       thr' = Local(w, "pc", next)
  /\ UNCHANGED <<untouched, handlers, locks, thr_queue, fast_anchor, busy_count,
                 notfinished, flips>>

\* the system call returns, or the mutex taken for h_mins or for the log
\* write is released
MutexUnlock(w) ==
  /\ w \in Threads /\ alive /\ ~suspended(w)
  /\ thr[w].pc \in DOMAIN UnlockSite
  /\ LET site == UnlockSite[thr[w].pc]
     IN  /\ locks' = IF site.m = "none" THEN locks ELSE [locks EXCEPT ![site.m] = <<>>]
         /\ thr' = Local(w, "pc", site.to)
  /\ UNCHANGED <<untouched, handlers, thr_queue, fast_anchor, busy_count,
                 notfinished, flips>>

\* the handback with thr_queue held: the splice and the unlock; one item is
\* donated and one pthread_cond_signal follows
SpliceLocked(w) ==
  /\ at(w, "splice")
  /\ element_counter(fast_anchor) < MaxShared
  /\ fast_anchor' = splice(fast_anchor, deq_push(deq_init, QueueElement(3, 0)))
  /\ thr_queue' = 0
  /\ thr' = [thr EXCEPT ![w].pc = "signal", ![w].j = 1]
  /\ UNCHANGED <<untouched, handlers, locks, busy_count, notfinished, flips>>

\* handle_subtree after process_tile, with thr_queue held: busy_count--, the
\* end test, the broadcast and the unlock
ReleaseLocked(w) ==
  /\ at(w, "release")
  /\ thr_queue' = 0
  /\ busy_count' = size_dec(busy_count)
  /\ IF end_of_scan(busy_count')
     THEN /\ notfinished' = 0
          /\ flips' = flips + 1
          /\ thr' = [v \in Threads |->
                       IF v = w THEN [thr[v] EXCEPT !.pc = "loop"]
                       ELSE IF v \in Waiters THEN [thr[v] EXCEPT !.pc = "lock"]
                       ELSE thr[v]]
     ELSE /\ thr' = Local(w, "pc", "loop")
          /\ UNCHANGED <<notfinished, flips>>
  /\ UNCHANGED <<untouched, handlers, locks, fast_anchor>>

\* SIGINT, SIGQUIT or SIGTERM is delivered to thread c (0: the main thread),
\* wherever it is, and handler is entered on it
Interrupt(c) ==
  /\ alive
  /\ Len(handlers) < MaxSignals
  /\ c = 0 \/ (c \in Threads /\ thr[c].pc # "exited")
  /\ \E r \in join_self(c) : handlers' = Append(handlers, [ctx |-> c, pc |-> "lock", self |-> r])
  /\ UNCHANGED <<untouched, locks, thr, thr_queue, fast_anchor, busy_count,
                 notfinished, flips>>

\* handler: pthread_mutex_lock(&thr_handler) returns
HandlerLock(h) ==
  /\ running(h)
  /\ handlers[h].pc = "lock"
  /\ Holder("thr_handler") = <<>>
  /\ locks' = [locks EXCEPT !["thr_handler"] = <<handlers[h].ctx>>]
  /\ handlers' = [handlers EXCEPT ![h].pc = "flip"]
  /\ UNCHANGED <<untouched, thr, thr_queue, fast_anchor, busy_count, notfinished, flips>>

\* handler with thr_handler held: if (notfinished) { notfinished = 0;
\* broadcast }, and the unlock
HandlerFlip(h) ==
  /\ running(h)
  /\ handlers[h].pc = "flip"
  /\ locks' = [locks EXCEPT !["thr_handler"] = <<>>]
  /\ handlers' = [handlers EXCEPT ![h].pc = "join"]
  /\ IF notfinished = 1
     THEN /\ notfinished' = 0
          /\ flips' = flips + 1
          /\ thr' = [v \in Threads |->
                       IF v \in Waiters THEN [thr[v] EXCEPT !.pc = "lock"] ELSE thr[v]]
     ELSE UNCHANGED <<notfinished, flips, thr>>
  /\ UNCHANGED <<untouched, thr_queue, fast_anchor, busy_count>>

\* a single-queue run, seen at its mutexes
InitLocks ==
  /\ \E n \in 1..MaxThr : InitRun(n, RoundTripMap)
  /\ SingleRun
  /\ stack = 1
  /\ dual_queue = 0
  /\ dryrun = 0
  /\ busythreshold = 9
  /\ eperm = {}

NextLocks ==
  \/ \E w \in 1..MaxThr :
       \/ LoopTest(w)
       \/ MutexLock(w)
       \/ DispatchLocked(w)
       \/ SpuriousWakeup(w)
       \/ Choose(w)
       \/ MutexUnlock(w)
       \/ SpliceLocked(w)
       \/ Signal(w)
       \/ ReleaseLocked(w)
  \/ \E c \in 0..MaxThr : Interrupt(c)
  \/ \E h \in 1..MaxSignals :
       \/ HandlerLock(h)
       \/ HandlerFlip(h)
       \/ HandlerJoin(h)
       \/ HandlerFrees(h)
       \/ HandlerExit(h)
  \/ MainFrees
  \/ MainExit

SpecLocks == InitLocks /\ [][NextLocks]_vars

(***************************************************************************)
(* Vocabulary of the properties                                            *)
(***************************************************************************)
\* every worker has left handle_subtree
AllExited == ~crashed /\ \A w \in Threads : thr[w].pc = "exited"

\* the entries of a directory that are neither ".", ".." nor excluded
TakenEntries(dir) ==
  {Paths[dir].list[i] : i \in {k \in DOMAIN Paths[dir].list :
      LET name == Paths[Paths[dir].list[k]].name
      IN  name \notin {".", ".."} /\ include(name)}}

RECURSIVE Below(_)
Below(dir) ==
  IF Paths[dir].kind # "dir" THEN {}
  ELSE TakenEntries(dir) \cup UNION {Below(c) : c \in TakenEntries(dir)}

Roots == {RootList[i] : i \in DOMAIN RootList}

\* the non-excluded entries of every directory reachable from the roots
Entries == UNION {Below(r) : r \in Roots}

\* the inodes of the tree that carry an owner the run rewrites: the roots and
\* the regular files, symlinks and directories among the entries
TreeNodes ==
  {Paths[p].node : p \in {q \in Roots \cup Entries : Paths[q].kind \in {"reg", "lnk", "dir"}}}

\* the paths of the tree that are names of the regular file n
LinksOf(n) == {p \in Entries : Paths[p].node = n /\ Paths[p].kind = "reg"}

\* the inodes of regular files with more than one name
HardlinkClasses == {n \in NodeIds : Nodes[n].nlink > 1 /\ LinksOf(n) # {}}

RECURSIVE SumOf(_, _)
SumOf(f, S) ==
  IF S = {} THEN 0
  ELSE LET x == CHOOSE y \in S : TRUE IN f[x] + SumOf(f, S \ {x})

Matches(list, id) == \E i \in DOMAIN list : list[i].old = id

\* the new id of the first pair of the map whose old id is id
FirstMatch(list, id) ==
  list[CHOOSE i \in DOMAIN list :
         list[i].old = id /\ \A k \in 1..(i - 1) : list[k].old # id].new

\* the threads that hold an item taken from a shared deque
Holders == {w \in Threads : thr[w].pc \in {"top", "scan", "handback", "signal", "release"}}

\* the threads inside process_tile
Scanning == {w \in Threads : thr[w].pc \in {"top", "scan", "handback", "signal"}}

(***************************************************************************)
(* C1                                                                      *)
(***************************************************************************)
\* C1: in a run without signal and without I/O error no entry is processed
\* (lstat-ed, classified, rewritten) twice, and once all workers have exited
\* every non-excluded entry of every directory reachable from the roots has
\* been processed exactly once.
C1_ProcessedExactlyOnce ==
  /\ \A p \in PathIds : visits[p] <= 1
  /\ (AllExited /\ \A p \in PathIds : \A i \in DOMAIN calls[p] : calls[p][i].ok)
       => \A p \in Entries : visits[p] = 1

(***************************************************************************)
(* C2                                                                      *)
(***************************************************************************)
\* C2: under fair scheduling every run eventually sets notfinished to false
\* and every worker exits, for every number of workers, threshold, deque
\* discipline and single- or dual-queue mode.
C2_Termination == <>(notfinished = 0 /\ AllExited)

(***************************************************************************)
(* C3                                                                      *)
(***************************************************************************)
\* C3: when notfinished has been set to false the fast and the slow deque are
\* empty, every private deque is empty, no worker is scanning, and busy_count
\* is 0 and equal to the number of workers that hold an item.
C3_NoPrematureTermination ==
  notfinished = 0 =>
    /\ both_empty
    /\ \A w \in Threads : element_counter(thr[w].p_anchor) = 0
    /\ Scanning = {}
    /\ busy_count = 0
    /\ busy_count = Cardinality(Holders)

\* the flag has been set by one of several workers after the tree was walked
C3_Flipped == notfinished = 0 /\ numthr > 1 /\ visits[6] = 1 /\ visits[10] = 1

(***************************************************************************)
(* C4                                                                      *)
(***************************************************************************)
\* C4: notfinished is set to false at most once, exactly once in a run in
\* which all workers have exited, and once it is false no worker holds an
\* item: the other workers leave without having dispatched anything more.
C4_OneFlip ==
  /\ flips <= 1
  /\ (notfinished = 0) = (flips = 1)
  /\ AllExited => flips = 1
  /\ notfinished = 0 => Holders = {}

\* several workers have exited after one of them set the flag
C4_AllGone == AllExited /\ numthr > 1 /\ flips = 1 /\ visits[6] = 1

(***************************************************************************)
(* C5                                                                      *)
(***************************************************************************)
\* C5: of the paths that name one regular file with link count above 1 (one
\* (st_dev, st_ino) class) the id rewrite is applied to at most one, whatever
\* workers visit them.
C5_HardlinkOnce ==
  \A n \in HardlinkClasses : SumOf(rewritten, LinksOf(n)) <= 1

\* both names of a file have been visited and one of them was rewritten
C5_BothLinksSeen ==
  \E n \in HardlinkClasses : \E p, q \in LinksOf(n) :
    p # q /\ visits[p] = 1 /\ visits[q] = 1 /\ rewritten[p] = 1 /\ rewritten[q] = 0

(***************************************************************************)
(* C6                                                                      *)
(***************************************************************************)
\* C6 (as stated): at most one chown call is made per hardlink class, also
\* when both the uid and the gid of the file match a map.
C6_AtMostOneChown ==
  \A n \in HardlinkClasses :
    SumOf([p \in PathIds |-> Len(calls[p])], LinksOf(n)) <= 1

\* C6 (amended): the calls of a hardlink class are all made on one of its
\* paths, and they are at most one uid call and at most one gid call: two
\* chown calls when both the uid and the gid of the file match a map.
C6_OneChownPerIdKind ==
  \A n \in HardlinkClasses :
    /\ Cardinality({p \in LinksOf(n) : calls[p] # <<>>}) <= 1
    /\ \A p \in LinksOf(n) :
         /\ Cardinality({i \in DOMAIN calls[p] : calls[p][i].uid # -1}) <= 1
         /\ Cardinality({i \in DOMAIN calls[p] : calls[p][i].gid # -1}) <= 1

\* a file with two names got its uid call and its gid call on one of them
\* and nothing on the other
C6_TwoCallsOneLink ==
  \E n \in HardlinkClasses : \E p, q \in LinksOf(n) :
    p # q /\ Len(calls[p]) = 2 /\ visits[q] = 1 /\ calls[q] = <<>>

(***************************************************************************)
(* C7                                                                      *)
(***************************************************************************)
\* C7: after a completed real run in which every chown call succeeded, the
\* inodes whose uid differs from the uid before the run are exactly the
\* inodes of the tree, roots included, whose uid before the run is an old id
\* of the uid map; likewise for the gid.
C7_ChangedExactlyMapped ==
  (AllExited /\ dryrun = 0
     /\ \A p \in PathIds : \A i \in DOMAIN calls[p] : calls[p][i].ok)
  => \A n \in NodeIds :
       /\ (owner[n].uid # Nodes[n].uid)
             = (n \in TreeNodes /\ Matches(begin_uidpair, Nodes[n].uid))
       /\ (owner[n].gid # Nodes[n].gid)
             = (n \in TreeNodes /\ Matches(begin_gidpair, Nodes[n].gid))

(***************************************************************************)
(* C8                                                                      *)
(***************************************************************************)
\* the uid attempt and the gid attempt the rewrite of path p has to make
ExpectedCalls(p) ==
  LET nd == Nodes[Paths[p].node]
      fn == IF Paths[p].kind = "lnk" THEN "lchown" ELSE "chown"
      ok == Paths[p].node \notin eperm
      u  == IF Matches(begin_uidpair, nd.uid)
            THEN <<[fn |-> fn, uid |-> FirstMatch(begin_uidpair, nd.uid), gid |-> -1, ok |-> ok]>>
            ELSE <<>>
      g  == IF Matches(begin_gidpair, nd.gid)
            THEN <<[fn |-> fn, uid |-> -1, gid |-> FirstMatch(begin_gidpair, nd.gid), ok |-> ok]>>
            ELSE <<>>
  IN  u \o g

\* C8: the rewrite of one entry in a real run makes a uid chown (lchown for a
\* symlink) iff the uid matches the uid map, with the new uid of the first
\* match and gid -1, then a gid chown iff the gid matches the gid map, with
\* uid -1, whether or not the uid matched, succeeded or failed, and repeats
\* no failed call.
C8_RewriteOfOneEntry ==
  \A p \in PathIds :
    (dryrun = 0 /\ rewritten[p] >= 1) => calls[p] = ExpectedCalls(p)

(***************************************************************************)
(* C9                                                                      *)
(***************************************************************************)
\* C9: under dry-run no chown or lchown call is made and every inode keeps
\* the owner it had before the run.
C9_DryRunChangesNothing ==
  dryrun = 1 =>
    /\ \A p \in PathIds : calls[p] = <<>>
    /\ \A n \in NodeIds : owner[n] = [uid |-> Nodes[n].uid, gid |-> Nodes[n].gid]

\* a dry run has finished after visiting entries whose ids match the maps
C9_DryRunDone ==
  dryrun = 1 /\ AllExited /\ rewritten[4] + rewritten[6] = 1 /\ out[7] > 0

(***************************************************************************)
(* C10                                                                     *)
(***************************************************************************)
\* C10 (as stated): a dry run prints exactly one line for every entry a real
\* run would change, whether its uid, its gid or both would change, and no
\* line for any other entry.
C10_OneLinePerEntry ==
  dryrun = 1 =>
    \A p \in PathIds :
      out[p] = IF rewritten[p] >= 1 /\ ExpectedCalls(p) # <<>> THEN 1 ELSE 0

\* C10 (amended): a dry run prints for every entry it rewrites one line per
\* id kind that matches its map, as many lines as a real run attempts chown
\* calls on the entry (two when both the uid and the gid match), and no line
\* for any other entry.
C10_OneLinePerIdKind ==
  dryrun = 1 =>
    \A p \in PathIds :
      out[p] = IF rewritten[p] >= 1 THEN Len(ExpectedCalls(p)) ELSE 0

\* a dry run has printed two lines for one entry and one line for another
C10_TwoLines ==
  dryrun = 1 /\ \E p, q \in PathIds : out[p] = 2 /\ out[q] = 1


(***************************************************************************)
(* C16                                                                     *)
(***************************************************************************)
\* the paths whose basename is in the exclude list
Excluded == {p \in PathIds : \E i \in DOMAIN ExcludeList : ExcludeList[i] = Paths[p].name}

\* the directories some queue element (in a shared deque, in a private deque
\* or in the hands of a thread) stands for
ItemDirs ==
  {fast_anchor.q[i].name : i \in DOMAIN fast_anchor.q}
  \cup {slow_anchor.q[i].name : i \in DOMAIN slow_anchor.q}
  \cup UNION {{thr[w].p_anchor.q[i].name : i \in DOMAIN thr[w].p_anchor.q} : w \in Threads}
  \cup {thr[w].w_element.name : w \in {v \in Threads : thr[v].w_element # NULL}}
  \cup {thr[w].first_deq_element.name :
          w \in {v \in Threads : thr[v].first_deq_element # NULL}}

\* C16: an entry whose basename equals an entry of the exclude list is, at
\* any depth below a root and whatever its file type, never lstat-ed, never
\* rewritten, never reported and never turned into a queue element; what lies
\* below an excluded directory is never reached, and an inode whose only name
\* is excluded keeps its owner.
C16_ExcludedUntouched ==
  /\ \A p \in Excluded :
        /\ visits[p] = 0
        /\ rewritten[p] = 0
        /\ calls[p] = <<>>
        /\ out[p] = 0
        /\ p \notin ItemDirs
        /\ \A i \in DOMAIN Paths[p].list : visits[Paths[p].list[i]] = 0
  /\ \A n \in {Paths[p].node : p \in Excluded} :
        owner[n] = [uid |-> Nodes[n].uid, gid |-> Nodes[n].gid]

\* a run has ended after the directories holding the excluded entries /a/x
\* (a directory) and /a/d/x (a regular file with a mapped uid) were read to
\* their end: the entries next to them were processed
C16_SiblingsDone ==
  /\ AllExited
  /\ dryrun = 0
  /\ visits[4] = 1
  /\ visits[6] = 1
  /\ visits[7] = 1
  /\ Excluded = {5, 14}


(***************************************************************************)
(* C17                                                                     *)
(***************************************************************************)
Symlinks == {p \in PathIds : Paths[p].kind = "lnk"}

\* the owner the node of path p had before the run
OwnerBefore(p) == [uid |-> Nodes[Paths[p].node].uid, gid |-> Nodes[Paths[p].node].gid]

\* C17: every call made for a symbolic link is lchown, so the owner of the
\* link's target (here a directory with a single name) is at every moment
\* what the calls made on the target's own path have produced, while the
\* link's own inode carries the result of the calls made for the link; and
\* a symbolic link is never a queue element, although it points to a directory.
C17_SymlinkNotFollowed ==
  \A p \in Symlinks :
    /\ \A i \in DOMAIN calls[p] : calls[p][i].fn = "lchown"
    /\ owner[Paths[LinkTarget[p]].node] =
         apply_calls(OwnerBefore(LinkTarget[p]), calls[LinkTarget[p]])
    /\ owner[Paths[p].node] = apply_calls(OwnerBefore(p), calls[p])
    /\ p \notin ItemDirs

\* the link /a/d/s -> /a/d has been rewritten in a real run, after its target
\* was rewritten through its own name, and the run has ended
C17_LinkRewritten ==
  /\ AllExited
  /\ dryrun = 0
  /\ Paths[LinkTarget[7]].kind = "dir"
  /\ \E i \in DOMAIN calls[7] : calls[7][i].ok
  /\ \E i \in DOMAIN calls[3] : calls[3][i].ok
  /\ owner[6] # OwnerBefore(7)


(***************************************************************************)
(* C13                                                                     *)
(***************************************************************************)
\* the owner of node n after a completed real run, as the maps, the tree and
\* the permissions alone determine it: the ids found before the run, rewritten
\* once if the node has a name among the entries (the roots themselves are
\* never rewritten)
FinalOwner(n) ==
  LET names  == {p \in Entries : Paths[p].node = n /\ Paths[p].kind \in {"reg", "lnk", "dir"}}
      before == [uid |-> Nodes[n].uid, gid |-> Nodes[n].gid]
  IN  IF names = {} THEN before
      ELSE LET p == CHOOSE q \in names : TRUE
           IN  apply_calls(before,
                           rewrite_calls(Paths[p].kind, before.uid, before.gid, n \notin eperm))

\* C13: after a completed real run the owner of every node is the one the
\* maps determine, whatever the number of threads, the stack or queue mode,
\* the single or dual deque mode and the interleaving were.
C13_SameFinalOwnership ==
  (AllExited /\ dryrun = 0) => \A n \in NodeIds : owner[n] = FinalOwner(n)


(***************************************************************************)
(* C14                                                                     *)
(***************************************************************************)
\* stdin, stdout and stderr, which safe_descriptor leaves as the only open
\* descriptors at the start of main
STD_DESCRIPTORS == 3

\* the workers that hold a directory stream (opendir done, closedir not yet)
OpenStreams == {w \in Threads : thr[w].dp # -1}

\* the descriptors of the process while the workers run: the standard ones,
\* the log file and one per directory stream
descriptors == STD_DESCRIPTORS + 1 + Cardinality(OpenStreams)

C15_ThreadsFitDescriptors ==
  main = "run" => numthr + OPENFILES_OFFSET <= max_openfiles


(***************************************************************************)
(* C11                                                                     *)
(***************************************************************************)
\* the second run has completed
SecondRunDone == run = 2 /\ AllExited

\* no new id of the map is an old id of the map
Unchained(list) ==
  \A i \in DOMAIN list : \A k \in DOMAIN list : list[i].new # list[k].old

ChangedByFirst ==
  {n \in NodeIds : first.owner[n] # [uid |-> Nodes[n].uid, gid |-> Nodes[n].gid]}

\* C12: after a run with the map {u:A:B, g:X:Y} and a completed second run
\* with the map {u:B:A, g:Y:X}, every entry the first run changed has the uid
\* and the gid it had before the first run.
C12_RoundTrip ==
  (SecondRunDone /\ plan = "inverse")
    => \A n \in ChangedByFirst : owner[n] = [uid |-> Nodes[n].uid, gid |-> Nodes[n].gid]


(***************************************************************************)
(* C18                                                                     *)
(***************************************************************************)
\* C18: once the handler has asked for the shutdown, the process does not
\* come to a halt before it has exited: as long as it is alive some thread or
\* handler can take a step (a state without such a step is one from which
\* the joins never complete).
C18_ShutdownNotStuck ==
  (handlers # <<>> /\ alive) => ENABLED Progress

(***************************************************************************)
(* C19                                                                     *)
(***************************************************************************)
\* C19: the joins and frees of the shared objects are made by at most one
\* invocation of the handler, and by no invocation once main has made its
\* end-of-run frees.
C19_TeardownOnce ==
  /\ Cardinality({teardown[i].by : i \in DOMAIN teardown} \ {0}) <= 1
  /\ \A i \in DOMAIN teardown : \A k \in DOMAIN teardown :
        ~(teardown[i].by = 0 /\ teardown[k].by # 0)

(***************************************************************************)
(* C20                                                                     *)
(***************************************************************************)
\* C20: a worker that was scanning a directory when the handler asked for
\* the shutdown has, whenever it holds a directory stream afterwards, that
\* same directory open (after the shutdown request no worker starts a new
\* call of process_tile, so every later opendir of the worker belongs to the
\* call that was running).
C20_OnlyPresentItem ==
  \A w \in DOMAIN scanned :
    (scanned[w] # 0 /\ thr[w].dp # -1) => thr[w].w_element.name = scanned[w]

(***************************************************************************)
(* The hardlink table as a set                                             *)
(***************************************************************************)
\* the pairs held by the first_free entries of het_tab
Stored(ht) == {<<ht.het_tab[i].ino, ht.het_tab[i].dev>> : i \in 0..(ht.first_free - 1)}

\* the pairs passed to the first k calls
Passed(k) == {<<h_calls[j].ino, h_calls[j].dev>> : j \in 1..k}

\* a lookup of the pair from its bucket meets it
Found(ht, pair) ==
  ht.hash[pair[1] % ht.mod] # <<>> /\ chain(ht, ht.hash[pair[1] % ht.mod], pair[1], pair[2]) = 1

\* the table holds exactly the pairs of set, each in one entry and each found
Represents(ht, set) ==
  /\ ~ht.wild
  /\ Stored(ht) = set
  /\ ht.first_free = Cardinality(set)
  /\ \A pair \in set : Found(ht, pair)
  /\ \A pair \in (Inos \X Devs) \ set : ~Found(ht, pair)

\* C21: the table refines a set of (ino, dev) pairs.  Every call of h_mins
\* returned 0 if its pair was passed to no earlier call and 1 otherwise, pairs
\* with the same ino and different dev being different pairs; the table holds
\* exactly the pairs passed so far; and a growth that is due (first_free >=
\* het_tab_size) keeps exactly the stored pairs, none lost and none twice, and
\* leaves first_free as it was, whether or not realloc moves het_tab.
C21_HardlinkSetRefinesSet ==
  /\ \A k \in DOMAIN h_calls :
       h_calls[k].ret = IF <<h_calls[k].ino, h_calls[k].dev>> \in Passed(k - 1) THEN 1 ELSE 0
  /\ h_calls # <<>> => Represents(htab, Passed(Len(h_calls)))
  /\ (h_calls # <<>> /\ htab.first_free >= htab.het_tab_size) =>
       \A moved \in BOOLEAN :
         /\ Represents(grow(htab, moved), Stored(htab))
         /\ grow(htab, moved).first_free = htab.first_free

\* the table has grown twice since h_init, holds two pairs with one ino, and
\* the last call was passed a pair for the second time
C21_GrownAndKnown ==
  /\ h_calls # <<>>
  /\ htab.block >= 3
  /\ \E ino \in Inos : {<<ino, dev>> : dev \in Devs} \subseteq Stored(htab)
  /\ h_calls[Len(h_calls)].ret = 1

(***************************************************************************)
(* Work items and the places that hold them                                *)
(***************************************************************************)
\* the number of elements of a deque that carry the directory d
InDeque(anchor, d) == Cardinality({i \in DOMAIN anchor.q : anchor.q[i].name = d})

\* w scans d: w_element was taken from the private deque and not put back
InScan(w, d) ==
  thr[w].pc = "scan" /\ thr[w].backtodeq = 0 /\ thr[w].w_element.name = d

\* w keeps d aside during a handback
KeptAside(w, d) ==
  thr[w].first_deq_element # NULL /\ thr[w].first_deq_element.name = d

\* the number of places that hold the work item of the directory d: the
\* shared deques, the private deques, a worker scanning it, a worker keeping
\* it aside
Locations(d) ==
  InDeque(fast_anchor, d) + InDeque(slow_anchor, d)
  + SumOf([w \in Threads |-> InDeque(thr[w].p_anchor, d)], Threads)
  + Cardinality({w \in Threads : InScan(w, d)})
  + Cardinality({w \in Threads : KeptAside(w, d)})

\* the directories of the tree: work items exist for these
Dirs == {p \in Roots \cup Entries : Paths[p].kind = "dir"}

\* C23: in single- and in dual-queue mode no work item is in two places at
\* once (a shared deque, a private deque, the worker that scans it, the
\* worker that keeps it aside), and no work item has been freed at the end
\* of process_tile while it was linked into a deque.
C23_OneHolderNoneFreed ==
  /\ \A d \in Dirs : Locations(d) <= 1
  /\ freed = {}

(***************************************************************************)
(* The handback                                                            *)
(***************************************************************************)
\* the number of elements in the shared deques
SharedItems == element_counter(fast_anchor) + element_counter(slow_anchor)

\* w performs the critical section of a handback in this step
Splices(w) == thr[w].pc = "handback" /\ thr'[w].pc = "signal"

\* w ends a handback in this step and goes on with its while loop
EndsHandback(w) == thr[w].pc = "signal" /\ thr'[w].pc = "top"

\* C24: a handback by a worker whose private deque holds k > 1 elements (j =
\* deq_count - 1 = k - 1) adds exactly k - 1 elements to the shared deques,
\* and at its end the private deque holds exactly the one element kept, in
\* single- and in dual-queue mode.
C24_KeepsOne ==
  [][\A w \in Threads :
       /\ Splices(w) => SharedItems' = SharedItems + thr[w].j
       /\ EndsHandback(w) => element_counter(thr'[w].p_anchor) = 1]_vars

(***************************************************************************)
(* The dual-queue dispatch                                                 *)
(***************************************************************************)
\* w takes an item from a shared deque in this step
Dispatches(w) == thr[w].pc = "lock" /\ thr'[w].pc = "top"

\* the item w has taken in this step
Taken(w) == deq_first(thr'[w].p_anchor)

TakesFast(w) ==
  /\ element_counter(fast_anchor) > 0
  /\ Taken(w) = deq_first(fast_anchor)
  /\ fast_anchor'.q = Tail(fast_anchor.q)
  /\ slow_anchor'.q = slow_anchor.q

TakesSlow(w) ==
  /\ element_counter(slow_anchor) > 0
  /\ Taken(w) = deq_first(slow_anchor)
  /\ slow_anchor'.q = Tail(slow_anchor.q)
  /\ fast_anchor'.q = fast_anchor.q

\* c is the smallest integer that is not below fast.speed / slow.speed
IsCeil(c) ==
  /\ slow_anchor.speed > 0
  /\ c * slow_anchor.speed >= fast_anchor.speed
  /\ (c - 1) * slow_anchor.speed < fast_anchor.speed

\* C25: a dual-queue dispatch with credit > 0 takes the front of the fast
\* deque and lowers the credit by one if the fast deque holds an element, and
\* otherwise takes the front of the slow deque and sets the credit to
\* ceil(fast.speed / slow.speed); with credit = 0 it takes the front of the
\* slow deque and sets the credit to that ceiling if the slow deque holds an
\* element, and otherwise takes the front of the fast deque and leaves the
\* credit 0.
C25_DispatchChoice ==
  [][\A w \in Threads :
       (dual_queue = 1 /\ Dispatches(w)) =>
         LET credit == fast_nodes_befor_next_slow_node
             fast   == element_counter(fast_anchor) > 0
             slow   == element_counter(slow_anchor) > 0
         IN  /\ (credit > 0 /\ fast) =>
                  TakesFast(w) /\ fast_nodes_befor_next_slow_node' = credit - 1
             /\ (credit > 0 /\ ~fast) =>
                  TakesSlow(w) /\ IsCeil(fast_nodes_befor_next_slow_node')
             /\ (credit = 0 /\ slow) =>
                  TakesSlow(w) /\ IsCeil(fast_nodes_befor_next_slow_node')
             /\ (credit = 0 /\ ~slow) =>
                  TakesFast(w) /\ fast_nodes_befor_next_slow_node' = 0
             /\ credit >= 0]_vars

\* a worker holds the front of the fast deque, taken on credit while the
\* slow deque held an element: the credit 2 of the last dispatch from the
\* slow deque is down to 1
C25_TakenOnCredit ==
  /\ \E w \in Threads : thr[w].pc = "top" /\ deq_first(thr[w].p_anchor).name = 1
  /\ streak = [n |-> 1, c |-> 2]
  /\ fast_nodes_befor_next_slow_node = 1
  /\ element_counter(slow_anchor) > 0

C27_BoundedFastStreak ==
  dual_queue = 1 =>
    /\ streak.n <= streak.c
    /\ streak.n + fast_nodes_befor_next_slow_node <= streak.c

\* the whole credit of 2 was spent on the fast deque while the slow deque
\* held an element, which is then the next to be taken
C27_CreditSpent ==
  /\ streak.c = 2
  /\ streak.n = 2
  /\ fast_nodes_befor_next_slow_node = 0
  /\ element_counter(slow_anchor) > 0

(***************************************************************************)
(* The target of a dual-queue handback                                     *)
(***************************************************************************)
\* the elements of the deque after the donated ones have been spliced in: in
\* front in stack mode, at the back in queue mode
Spliced(q, donated) == IF stack = 1 THEN donated \o q ELSE q \o donated

\* the private deque of w goes to target at the scan rate rate
DonatesTo(w, target, rate) ==
  /\ target'.q = Spliced(target.q, thr[w].p_anchor.q)
  /\ target'.speed = rate

\* C28: a dual-queue handback whose scan rate is at least the mean of the two
\* speeds splices all donated items into the fast deque (in front in stack
\* mode, at the back in queue mode), sets the fast speed to the scan rate and
\* leaves the slow deque as it is; otherwise it does the same with the slow
\* deque and leaves the fast deque as it is.  The credit, busy_count and
\* notfinished are not changed by a handback.
C28_HandbackTarget ==
  [][\A w \in Threads :
       (dual_queue = 1 /\ Splices(w)) =>
         /\ \E delta \in Deltas :
              LET rate == scanrate(thr[w].directories_scanned, delta)
              IN  IF 2 * rate >= fast_anchor.speed + slow_anchor.speed
                  THEN DonatesTo(w, fast_anchor, rate) /\ slow_anchor' = slow_anchor
                  ELSE DonatesTo(w, slow_anchor, rate) /\ fast_anchor' = fast_anchor
         /\ thr[w].p_anchor.q # <<>>
         /\ fast_nodes_befor_next_slow_node' = fast_nodes_befor_next_slow_node
         /\ busy_count' = busy_count
         /\ notfinished' = notfinished]_vars

\* in stack mode a handback has just put its element, a directory scanned in
\* part, in front of the root the fast deque already held, at a speed above 0
C28_DonatedInFront ==
  /\ dual_queue = 1
  /\ stack = 1
  /\ \E w \in Threads : thr[w].pc = "signal"
  /\ element_counter(fast_anchor) >= 2
  /\ deq_first(fast_anchor).dirpos > 0
  /\ fast_anchor.q[2].dirpos = 0
  /\ fast_anchor.speed > 0

(***************************************************************************)
(* Single-queue mode                                                       *)
(***************************************************************************)
\* C29: in single-queue mode (-o) the slow deque is always empty, the credit
\* and both speeds keep their initial value 0, every handback splices the
\* private deque into the fast deque and every dispatch takes the front of
\* the fast deque.
C29_SingleQueue ==
  /\ [](dual_queue = 0 =>
          /\ element_counter(slow_anchor) = 0
          /\ fast_nodes_befor_next_slow_node = 0
          /\ fast_anchor.speed = 0
          /\ slow_anchor.speed = 0)
  /\ [][\A w \in Threads :
          dual_queue = 0 =>
            /\ Dispatches(w) => TakesFast(w)
            /\ Splices(w) =>
                 /\ thr[w].p_anchor.q # <<>>
                 /\ fast_anchor'.q = Spliced(fast_anchor.q, thr[w].p_anchor.q)
                 /\ slow_anchor' = slow_anchor]_vars

\* a single-queue handback has put a directory found during the scan into
\* the fast deque, and another worker has taken an item from there
C29_HandedBackAndTaken ==
  /\ dual_queue = 0
  /\ \E w \in Threads : thr[w].pc = "signal"
  /\ \E i \in DOMAIN fast_anchor.q : fast_anchor.q[i].name \notin Roots
  /\ \E v \in Threads : thr[v].pc = "scan"

(***************************************************************************)
(* busy_count                                                              *)
(***************************************************************************)
\* w gives its item back in this step: busy_count-- under thr_queue
Releases(w) == thr[w].pc = "release" /\ thr'[w].pc = "loop"

\* C30: busy_count is the number of workers that have taken an item and not
\* yet released it, and lies between 0 and the number of workers; it goes up
\* by one exactly in the steps in which a dispatch removes an item from a
\* shared deque, goes down by one exactly in the releases, and is never
\* decremented at 0.
C30_BusyCountExact ==
  /\ [](busy_count = Cardinality(Holders) /\ busy_count \in 0..numthr)
  /\ [][/\ \A w \in Threads :
             /\ Dispatches(w) =>
                  busy_count' = busy_count + 1 /\ SharedItems' = SharedItems - 1
             /\ Releases(w) => busy_count > 0 /\ busy_count' = busy_count - 1
        /\ busy_count' > busy_count => \E w \in Threads : Dispatches(w)
        /\ busy_count' < busy_count => \E w \in Threads : Releases(w)]_vars

\* both workers hold an item and one of them is about to release it
C30_AllBusy ==
  /\ numthr = 2
  /\ busy_count = 2
  /\ \E w \in Threads : thr[w].pc = "release"

(***************************************************************************)
(* Failures of lstat, chown and opendir                                    *)
(***************************************************************************)
\* the directories that are not scanned: lstat or opendir fails on them
FailedDirs == {d \in Dirs : d \in enoent \/ d \in eacces}

\* the entries a failure leaves unprocessed: the paths lstat fails on and
\* the subtrees of the directories that are not scanned
Lost == (enoent \cap Entries) \cup UNION {Below(d) : d \in FailedDirs}

\* C22: a failure of lstat or chown/lchown on a child, or of opendir on a
\* directory below a root, does not take the run down; once all workers have
\* exited, every entry other than the one that failed (or the subtree of the
\* directory that failed) has been processed exactly once, no worker is
\* counted busy and the shared deques are empty.
C22_FailuresIsolated ==
  /\ ~crashed
  /\ AllExited =>
       /\ \A e \in Entries \ Lost : visits[e] = 1
       /\ \A e \in Lost : visits[e] = 0
       /\ busy_count = 0
       /\ both_empty


(***************************************************************************)
(* Wake-ups                                                                *)
(***************************************************************************)
\* the work item of the directory d lies in the fast or in the slow deque
InShared(d) == InDeque(fast_anchor, d) + InDeque(slow_anchor, d) > 0

\* C31: in a run without signal no wake-up is lost: the shared deques do not
\* stay non-empty forever while a worker stays blocked in pthread_cond_wait,
\* and every work item that lies in a shared deque is eventually taken from
\* it by a worker.
C31_NoLostWakeup ==
  /\ ~<>[](SharedItems > 0 /\ Waiters # {})
  /\ \A d \in Dirs : InShared(d) ~> ~InShared(d)


(***************************************************************************)
(* The mutexes                                                             *)
(***************************************************************************)
Mutexes == {"thr_handler", "thr_queue", "thr_nlink", "thr_print"}

\* the order handler, scheduler, hardlink, log
Rank == [thr_handler |-> 1, thr_queue |-> 2, thr_nlink |-> 3, thr_print |-> 4]

\* the threads: the main thread and the workers
Contexts == 0..numthr

Held(c) == {m \in Mutexes : Holder(m) = <<c>>}

\* thread c takes the mutex m in this step
Acquires(c, m) == Holder(m) # <<c>> /\ Holder(m)' = <<c>>

\* the invocation of the handler that runs on c (0: none)
Innermost(c) ==
  IF suspended(c) THEN CHOOSE h \in DOMAIN handlers :
                         /\ handlers[h].ctx = c
                         /\ \A k \in DOMAIN handlers : handlers[k].ctx = c => k <= h
  ELSE 0

\* the mutex thread c is asking for in pthread_mutex_lock, or "none"
Wants(c) ==
  IF suspended(c)
  THEN IF handlers[Innermost(c)].pc = "lock" THEN "thr_handler" ELSE "none"
  ELSE IF c \in Threads /\ thr[c].pc \in DOMAIN LockSite THEN LockSite[thr[c].pc].m
  ELSE "none"

\* a set of threads each of which asks for a mutex held by a thread of the set
MutexCycle ==
  \E S \in SUBSET Contexts :
    /\ S # {}
    /\ \A c \in S : /\ Wants(c) # "none"
                    /\ Holder(Wants(c)) # <<>>
                    /\ Holder(Wants(c))[1] \in S

\* thread c is in opendir, readdir, lstat, chown, lchown or closedir, or
\* writes to the log
InCall(c) ==
  IF suspended(c) THEN handlers[Innermost(c)].pc = "frees"
  ELSE c \in Threads /\ thr[c].pc \in {"syscall", "write", "write_idle"}

\* C32: a thread takes a mutex only while it holds none that comes later in
\* the order handler, scheduler, hardlink, log or is the same; no set of
\* threads waits in a cycle for each other's mutexes; and a worker that
\* holds the scheduler mutex is in the critical section of the dispatch, of
\* the handback or of the release, never in a system call or a log write.
C32_LockDiscipline ==
  /\ [][\A c \in Contexts : \A m \in Mutexes :
          Acquires(c, m) => \A k \in Held(c) : Rank[k] < Rank[m]]_vars
  /\ [](~MutexCycle)
  /\ [](\A w \in Threads :
          thr_queue = w => (thr[w].pc \in {"cwait", "dispatch", "splice", "release"}
                            /\ ~InCall(w)))


(***************************************************************************)
(* The deques at their pointers                                            *)
(***************************************************************************)
\* the elements reached from first along next, up to NULL
Chain(d) == walk(heap, anchors[d].first, MaxElems + 1)

\* C33: after any sequence of deq_put, deq_push, deq_get, deq_append and
\* deq_prepend on deques made by deq_init, with elements that are in no
\* deque and have next = NULL when they are inserted, element_counter is the
\* number of elements reached from first along next; element_counter = 0 iff
\* first = NULL iff last = NULL; and last, when not NULL, is the final
\* element of the chain and has next = NULL.  No call dereferences NULL.
C33_DequeInvariant ==
  /\ ~crashed
  /\ \A d \in {"global", "local"} :
       LET a == anchors[d]
       IN  /\ a.element_counter = Len(Chain(d))
           /\ (a.element_counter = 0) <=> (a.first = <<>>)
           /\ (a.element_counter = 0) <=> (a.last = <<>>)
           /\ a.last # <<>> => /\ a.last[1] = Chain(d)[Len(Chain(d))]
                               /\ heap[a.last[1]] = <<>>

\* a deque of three elements has been emptied by deq_get calls after a splice
C33_EmptiedAgain ==
  /\ deq_call.op = "deq_get"
  /\ deq_call.d = "global"
  /\ Len(deq_call.before.global) = 1
  /\ deq_call.ret # <<>>
  /\ anchors.global.element_counter = 0
  /\ anchors.local.element_counter >= 2

\* a sequence as a deque of the sequence model
AsDeque(seq) == [q |-> seq, speed |-> 0]

\* C34: the functions of queue.c do on the linked elements what the sequence
\* operations do: deq_push puts x in front, deq_put behind, deq_get takes
\* and returns the head (NULL from an empty deque, which it leaves as it
\* is), deq_prepend makes global = local ++ global and deq_append global =
\* global ++ local; the other deque is left alone, and after a splice local
\* is empty with element_counter 0 and both pointers NULL.
C34_DequeRefinesSequence ==
  LET c     == deq_call
      b     == c.before
      other == IF c.d = "global" THEN "local" ELSE "global"
      now   == Before
  IN  /\ ~crashed
      /\ c.op = "deq_put" =>
           /\ now[c.d] = IF c.new = <<>> THEN b[c.d]
                         ELSE deq_put(AsDeque(b[c.d]), c.new[1]).q
           /\ now[other] = b[other]
      /\ c.op = "deq_push" =>
           /\ now[c.d] = IF c.new = <<>> THEN b[c.d]
                         ELSE deq_push(AsDeque(b[c.d]), c.new[1]).q
           /\ now[other] = b[other]
      /\ c.op = "deq_get" =>
           /\ c.ret = IF b[c.d] = <<>> THEN <<>> ELSE <<deq_first(AsDeque(b[c.d]))>>
           /\ now[c.d] = deq_get(AsDeque(b[c.d])).q
           /\ now[other] = b[other]
           /\ c.ret # <<>> => heap[c.ret[1]] = <<>>
      /\ c.op = "deq_prepend" =>
           now.global = deq_prepend(AsDeque(b.global), AsDeque(b.local)).q
      /\ c.op = "deq_append" =>
           now.global = deq_append(AsDeque(b.global), AsDeque(b.local)).q
      /\ c.op \in {"deq_prepend", "deq_append"} => anchors.local = q_init

\* two elements have been spliced in front of two others
C34_SplicedInFront ==
  /\ deq_call.op = "deq_prepend"
  /\ Len(deq_call.before.global) = 2
  /\ Len(deq_call.before.local) = 2
  /\ Before.global = deq_call.before.local \o deq_call.before.global


(***************************************************************************)
(* The requeue of an interrupted directory                                 *)
(***************************************************************************)
\* w puts the directory it is scanning back into its private deque in this
\* step: the idle check was true and readdir found a further entry
Requeues(w) ==
  thr[w].pc = "scan" /\ thr[w].backtodeq = 0 /\ thr'[w].backtodeq = 1

\* C35: when the idle check stops the scan of a directory that has further
\* entries, the work item of that directory, with the position saved in it,
\* becomes the first element of the worker's private deque, and it is the
\* element a dual-queue handback that follows keeps for the worker.
C35_RequeuedInFront ==
  [][\A w \in Threads :
       /\ Requeues(w) => deq_first(thr'[w].p_anchor) = thr'[w].w_element
       /\ (thr[w].pc = "scan" /\ thr[w].backtodeq = 1 /\ thr'[w].pc = "handback"
           /\ dual_queue = 1)
            => thr'[w].first_deq_element = thr[w].w_element]_vars


(***************************************************************************)
(* The scan rate                                                           *)
(***************************************************************************)
\* C36: the scan rate computed at a handback is the number of directories
\* scanned since the worker's last dispatch divided by the time gone by
\* since that dispatch, and 0 when no time has gone by.
C36_ScanRate ==
  \A i \in DOMAIN timer.rates :
    LET r == timer.rates[i]
    IN  r.scanrate = IF r.delta > 0 THEN (r.opened * SpeedUnit) \div r.delta ELSE 0

(***************************************************************************)
(* C37: the rates of the statistics line                                   *)
(***************************************************************************)
\* C37: every line the statistics thread prints shows, as files/s,
\* directories/s and links/s, the sum over the workers of the counter at
\* this line minus that sum at the line before, divided by interval; so
\* links/s is not 0 when at least interval symlinks were processed since
\* the line before
C37_RatesOfTheInterval ==
  \A i \in DOMAIN reporter.printed :
    LET l == reporter.printed[i]
        Rate(counter) == (l.now[counter] - l.before[counter]) \div reporter.interval
    IN  /\ l.fscanrate = Rate("filecounter")
        /\ l.dscanrate = Rate("dircounter")
        /\ l.lscanrate = Rate("linkcounter")
        /\ l.now["linkcounter"] - l.before["linkcounter"] >= reporter.interval
             => l.lscanrate # 0

(***************************************************************************)
(* C38: progress when the idle check is always true                        *)
(***************************************************************************)
\* w is inside process_tile
InTile(w) == w \in Threads /\ thr[w].pc \in {"top", "scan", "handback", "signal"}

C39_SlowSpeedPositive ==
  /\ [](dual_queue = 1 /\ element_counter(slow_anchor) > 0 => slow_anchor.speed > 0)
  /\ [][dual_queue = 1 =>
          \A w \in Threads :
            /\ Splices(w) =>
                 /\ fast_anchor'.speed # fast_anchor.speed => fast_anchor'.speed > 0
                 /\ slow_anchor'.speed # slow_anchor.speed => slow_anchor'.speed > 0
                 /\ element_counter(slow_anchor') > element_counter(slow_anchor)
                      => slow_anchor'.speed > 0
            /\ Dispatches(w) =>
                 /\ slow_anchor'.speed # slow_anchor.speed
                      => element_counter(slow_anchor') = 0
                 /\ element_counter(slow_anchor') < element_counter(slow_anchor) =>
                      /\ slow_anchor.speed > 0
                      /\ fast_nodes_befor_next_slow_node' * slow_anchor.speed >= fast_anchor.speed
                      /\ (fast_nodes_befor_next_slow_node' - 1) * slow_anchor.speed < fast_anchor.speed]_vars

\* a dispatch has taken the only item of the slow deque, the fast deque still
\* holds one, and the speed of the emptied slow deque is now that of the fast
C39_SlowTaken ==
  /\ dual_queue = 1
  /\ streak.n = 0
  /\ streak.c >= 1
  /\ fast_nodes_befor_next_slow_node = streak.c
  /\ element_counter(slow_anchor) = 0
  /\ element_counter(fast_anchor) > 0
  /\ slow_anchor.speed = fast_anchor.speed
  /\ slow_anchor.speed > 0
  /\ ~crashed

(***************************************************************************)
(* C40: the roots themselves                                               *)
(***************************************************************************)
\* the names of the inodes of the roots: the roots and their "." entries
RootNames == {p \in PathIds : \E r \in Roots : Paths[p].node = Paths[r].node}

==============================================================================
